---- MODULE Spec2Model ----
(***************************************************************************)
(* State-machine model of the Turvo API client (token manager, request     *)
(* builder, resource operations) and of the load handler's enrichment      *)
(* fan-out.                                                                *)
(*                                                                         *)
(* Time is an integer number of seconds.  The zero time.Time is 0.         *)
(* Strings whose content the code inspects (access token, Retry-After      *)
(* header) are sequences of one-character strings.                         *)
(***************************************************************************)
EXTENDS Integers, Sequences, FiniteSets, TLC

(* ------------------------------ bounds -------------------------------- *)

\* Number of goroutines calling fetchToken concurrently (SpecConc).
NumCallers == 2
\* The clock stops advancing at MaxTime.
MaxTime == 90
\* Resource requests followed within one call (the recursion after a 401).
MaxResReqs == 3
\* Largest page of shipments the handler enriches (SpecEnrich).
MaxPage == 3
\* Older detail requests still unanswered that a detail response may
\* overtake (SpecSem).
MaxOvertake == 1
\* Detail requests of lower indices still unanswered when one is answered,
\* on the page longer than the semaphore (SpecFanOut).
MaxFanOutOvertake == 0

(* ------------------------- program constants -------------------------- *)

ExpirySkew == 60
DefaultCooldown == 60
DefaultExpiresIn == 43200
StatusOK == 200
StatusCreated == 201
StatusUnauthorized == 401
StatusTooManyRequests == 429
StatusBadGateway == 502
SemCap == 6
\* ListShipments: pageSize := 100 and maxPages := 100.
pageSize == 100
maxPages == 100
\* ToTurvoShipment: 24 * time.Hour, in seconds.
DeliveryDefault == 86400
\* Config.TurvoDefaultCustomerID (default:"0").
TurvoDefaultCustomerID == 0

(* ------------------------------ inputs -------------------------------- *)

Callers == 1..NumCallers
\* The goroutine that runs resource operations (Spec).
OpCallers == {1}
Ops == {"ListCustomers", "ListShipmentsPage", "ListShipmentsPageWithQuery",
        "GetShipment", "CreateShipment"}
\* Seconds the clock may advance in one step.
TickSteps == {30}
\* access_token values a token response may carry.
AccessTokens == {<<>>, <<" ", "\f">>, <<"a">>, <<"\f", "b", " ">>}
\* refresh_token values a token response may carry.
RefreshTokens == {"", "r"}
\* The token responses drawn when several goroutines run (SpecConc).
ConcAccessTokens == {<<>>, <<"a">>}
ConcRefreshTokens == {"r"}
\* A number of twenty digits, beyond the 64 bits of an int.
TwentyNines == [i \in 1..20 |-> "9"]
\* An int of the build, of 64 bits: an integer of less than ten digits, or
\* the decimal digits of a larger one (wide), with a leading "-" when
\* negative.
GoInt(n) == [wide |-> FALSE, val |-> n]
WideInt(dec) == [wide |-> TRUE, val |-> dec]
\* 1<<63 - 1, the largest int.
MaxInt64 == <<"9", "2", "2", "3", "3", "7", "2", "0", "3", "6", "8", "5", "4",
              "7", "7", "5", "8", "0", "7">>
\* expires_in values a token response may carry (0: absent).
ExpiresInValues == {GoInt(-1), GoInt(0), GoInt(60), GoInt(90), WideInt(MaxInt64)}
\* Retry-After header values of a 429 token response (<<>>: absent).
RetryAfterHeaders ==
    {<<>>, <<"3", "0">>, <<"0">>, <<"-", "5">>, <<"x">>, TwentyNines, MaxInt64}
\* The expires_in values and Retry-After headers drawn when several
\* goroutines run (SpecConc, SpecRace).
ConcExpiresInValues == {e \in ExpiresInValues : ~e.wide}
ConcRetryAfterHeaders == RetryAfterHeaders \ {MaxInt64}
\* Status codes of a token response other than 200 and 429.
TokenErrorStatuses == {500}
\* Status codes of a resource response.
ResourceStatuses == {200, 201, 401, 429, 500}

\* A shipment's Lane pointer: nil, or a Lane with its start and end.
NilLane == [nil |-> TRUE, start |-> "", end |-> ""]
Lane(st, en) == [nil |-> FALSE, start |-> st, end |-> en]
\* Lanes a summary record of a list page may carry.
SummaryLanes == {NilLane, Lane("", ""), Lane("Chicago, IL", ""),
                 Lane("", "Detroit, MI")}
\* The summary record at index i of a page: ids differ from index to index.
Summary(i, lane) == [id |-> 100 + i, lane |-> lane, detail |-> FALSE]
\* The record the provider returns for GET shipments/{id}.
DetailOf(id) == [id |-> id, lane |-> Lane("Chicago, IL", "Detroit, MI"),
                 detail |-> TRUE]
\* The zero Shipment.
ZeroShipment == [id |-> 0, lane |-> NilLane, detail |-> FALSE]
\* The pages ListShipmentsPageWithQuery may return.
Pages ==
    UNION {{[i \in 1..n |-> Summary(i, f[i])] : f \in [1..n -> SummaryLanes]} :
           n \in 0..MaxPage}

\* The pages that make the spawning loop wait for a semaphore slot: one more
\* record than the semaphore holds, all of them without a lane.
SemPages == {[i \in 1..(SemCap + 1) |-> Summary(i, NilLane)]}
\* The indices whose detail fetch may fail on those pages.
SemFailing == {1, SemCap + 1}

\* A shipment as the scan for an external id sees it: its ID and CustomID.
Record(id, cid) == [id |-> id, customID |-> cid]
\* The provider's records: n of them, those at the positions in m with
\* CustomID "A", the first with "a", the others with "x".
Dataset(n, m) ==
    [i \in 1..n |-> Record(i, IF i \in m THEN "A" ELSE IF i = 1 THEN "a" ELSE "x")]
\* The datasets scanned: empty, short, and one record longer than maxPages
\* pages of one record.
DataLens == {0, 3, maxPages + 1}
MatchSets == {{}, {2}, {2, 3}, {maxPages}, {maxPages + 1}}
Datasets == {Dataset(n, m) : n \in DataLens, m \in MatchSets}
\* Records the provider serves on one page, whatever pageSize asks for.
ServedPerPage == {1, 2}
\* The external ids looked up.
ExternalIDs == {"A", "zz"}
\* The start parameter of a ListShipmentsPageWithQuery call (<<>>: empty).
StartParams == {<<>>, <<"2">>, <<"x">>, TwentyNines, TwentyNines \o <<"x">>}

\* The pagination struct: zero, and as a provider fills it.
ZeroPagination == [start |-> 0, pageSize |-> 0, totalRecordsInPage |-> 0,
                   moreAvailable |-> FALSE, lastObjectKey |-> ""]
Pagination(st, ps, tot, more, key) ==
    [start |-> st, pageSize |-> ps, totalRecordsInPage |-> tot,
     moreAvailable |-> more, lastObjectKey |-> key]
\* Response bodies of shipments/list: the envelope with details.shipments
\* and details.pagination, the envelope without a shipments array, the bare
\* array, and a body that is no JSON at all.
Envelope(ships, pag) == [kind |-> "envelope", hasShipments |-> TRUE,
                         shipments |-> ships, pagination |-> pag]
EnvelopeNoShipments(pag) == [kind |-> "envelope", hasShipments |-> FALSE,
                             shipments |-> <<>>, pagination |-> pag]
BareArray(ships) == [kind |-> "array", hasShipments |-> TRUE,
                     shipments |-> ships, pagination |-> ZeroPagination]
InvalidBody == [kind |-> "invalid", hasShipments |-> FALSE,
                shipments |-> <<>>, pagination |-> ZeroPagination]
\* No response yet.
NoBody == [kind |-> "none", hasShipments |-> FALSE,
           shipments |-> <<>>, pagination |-> ZeroPagination]
\* The records a provider serving k per page holds from offset st on.
Slice(d, k, st) ==
    SubSeq(d, st + 1, IF st + k < Len(d) THEN st + k ELSE Len(d))
\* The bodies a provider holding dataset d and serving k records per page
\* may answer a request for offset st with.
PageBodies(d, k, st) ==
    LET sl == Slice(d, k, st)
        more == st + k < Len(d)
    IN  {Envelope(sl, Pagination(st, k, Len(sl), more, "key")),
         Envelope(sl, Pagination(st, k, 0, more, "")),
         Envelope(sl, Pagination(st, k, -1, more, "")),
         Envelope(<<>>, Pagination(st, k, 0, TRUE, "key")),
         EnvelopeNoShipments(Pagination(st, k, 0, more, "")),
         BareArray(sl),
         InvalidBody}

\* The bodies a ListShipmentsPageWithQuery call may be answered with.
QueryBodies == PageBodies(Dataset(3, {2}), 2, 0) \cup PageBodies(Dataset(3, {2}), 2, 2)

\* City and state names, character by character.
Chicago == <<"C", "h", "i", "c", "a", "g", "o">>
Detroit == <<"D", "e", "t", "r", "o", "i", "t">>
IL == <<"I", "L">>
MI == <<"M", "I">>
\* A *time.Time: nil, or pointing at a time (0 is the zero time.Time).
NilTime == [nil |-> TRUE, t |-> 0]
TimeAt(t) == [nil |-> FALSE, t |-> t]
\* The times a load may carry for ReadyTime and MustDeliver.
StopTimes == {NilTime, TimeAt(0), TimeAt(50), TimeAt(200)}
\* A domain.Stop: its City and State, and its ReadyTime or MustDeliver.
Stop(city, state, tm) == [city |-> city, state |-> state, time |-> tm]
ZeroStop == Stop(<<>>, <<>>, NilTime)
\* The city and state pairs a load's stops may carry.
Places == {<<Chicago, IL>>, <<Detroit, MI>>, <<<<" ", "A", " ">>, <<>>>>,
           <<<<>>, <<"I", "L", " ">>>>, <<<<>>, <<>>>>}
\* A domain.Load as the mapper reads it.
\* A *float64: nil, or pointing at a number.
NilNum == [nil |-> TRUE, v |-> 0]
NumAt(v) == [nil |-> FALSE, v |-> v]
\* The display fields of a domain.Load, all at their zero values.
ZeroDisplay ==
    [phase |-> "", mode |-> "", serviceType |-> "", services |-> <<>>,
     equipment |-> <<>>, customerTotalMiles |-> NilNum,
     marginAmount |-> NilNum, marginValue |-> NilNum]
Load(ext, cust, pickup, consignee) ==
    [externalTMSLoadID |-> ext, customerTurvoID |-> cust, status |-> <<>>,
     customerName |-> "", pickup |-> pickup, consignee |-> consignee,
     display |-> ZeroDisplay]
ZeroLoad == Load("", 0, ZeroStop, ZeroStop)
\* The loads handed to ToTurvoShipment.
Loads ==
    {Load("A", cust, Stop(pp[1], pp[2], rt), Stop(cp[1], cp[2], md)) :
        cust \in {0, 7}, pp \in Places, cp \in Places,
        rt \in StopTimes, md \in StopTimes}
\* A character that has no escape in a TLA+ string is written as its Go
\* escape: the vertical tab, and the spaces beyond ASCII.
VerticalTab == "\\v"
NextLine == "\\u0085"
NoBreakSpace == "\\u00a0"
UnicodeSpaces ==
    {"\\u1680", "\\u2000", "\\u2001", "\\u2002", "\\u2003", "\\u2004",
     "\\u2005", "\\u2006", "\\u2007", "\\u2008", "\\u2009", "\\u200a",
     "\\u2028", "\\u2029", "\\u202f", "\\u205f", "\\u3000"}
\* Shipment.Status absent (a nil json.RawMessage).
NoStatus == [present |-> FALSE, decodes |-> FALSE, code |-> <<>>]
\* Shipment.Status holding JSON that is no object with a code object whose
\* value is a string, as "ACTIVE" or {"code": "x"}: json.Unmarshal fails.
StatusUndecodable == [present |-> TRUE, decodes |-> FALSE, code |-> <<>>]
\* Shipment.Status holding {"code": {"value": code}}; {} and null decode
\* to the empty code value.
StatusObject(code) == [present |-> TRUE, decodes |-> TRUE, code |-> code]
\* "Tendered"
Tendered == <<"T", "e", "n", "d", "e", "r", "e", "d">>
\* The statuses a provider's shipment may carry.
ProviderStatuses ==
    {NoStatus, StatusUndecodable} \cup
    {StatusObject(c) : c \in {<<>>, <<" ">>, <<" ", "\t", "\n", "\r", VerticalTab>>,
                              Tendered, <<" ">> \o Tendered \o <<" ", " ">>,
                              <<"I", "n", " ", "T">>,
                              <<"\f", "X", NoBreakSpace, NextLine>>}}
\* Shipment.Margin: nil, or minPay and maxPay.
NilMargin == [nil |-> TRUE, minPay |-> 0, maxPay |-> 0]
Margin(mn, mx) == [nil |-> FALSE, minPay |-> mn, maxPay |-> mx]
\* The equipment types, the services and the margin a provider's shipment
\* may carry.
ProviderEquipment == {<<>>, <<"Van">>, <<"Van", "Reefer">>}
ProviderServices == {<<>>, <<"Liftgate">>}
ProviderMargins == {NilMargin, Margin(0, 0), Margin(100, 250)}
\* The zero Shipment as the mapper sees it; the mapper's lane strings are
\* kept character by character.
ZeroWire ==
    [customID |-> "", ltlShipment |-> FALSE, startDate |-> 0, endDate |-> 0,
     timeZone |-> "", customerOrder |-> <<>>,
     lane |-> [nil |-> TRUE, start |-> <<>>, end |-> <<>>],
     skipDistanceCalculation |-> FALSE, status |-> NoStatus,
     equipment |-> <<>>, services |-> <<>>, margin |-> NilMargin]
\* The shipments a provider may return to ListLoads.
ProviderShipments ==
    {[ZeroWire EXCEPT !.customID = "A", !.status = st, !.equipment = eq,
                      !.services = sv, !.margin = mg,
                      !.customerOrder = co] :
        st \in ProviderStatuses, eq \in ProviderEquipment,
        sv \in ProviderServices, mg \in ProviderMargins,
        co \in {<<>>, <<[customerNil |-> FALSE, id |-> 7, name |-> "Acme"]>>}}

\* The shipments CreateShipment may return for the shipment w it posted: w
\* as the provider stored it, under the posted or under the provider's own
\* customId and with or without a status, or the zero Shipment.
CreatedShipments(w) ==
    {[w EXCEPT !.customID = c, !.status = st] :
        c \in {w.customID, "B"},
        st \in {NoStatus, StatusObject(Tendered)}} \cup {ZeroWire}

\* A response of the token endpoint: its status, its Retry-After header,
\* whether its body decodes, and the body's access_token, refresh_token and
\* expires_in.
TokResp(st, hdr, decodes, access, rtok, expiresIn) ==
    [status |-> st, retryAfter |-> hdr, decodes |-> decodes,
     access |-> access, refresh |-> rtok, expiresIn |-> expiresIn]
\* No response.
NoTokResp == TokResp(0, <<>>, FALSE, <<>>, "", GoInt(0))

\* The form a token request posts: its grant_type, its refresh_token and
\* the keys it sets.
NoForm == [grant |-> "", refreshToken |-> "", keys |-> {}]
RefreshForm(rt) ==
    [grant |-> "refresh_token", refreshToken |-> rt,
     keys |-> {"grant_type", "refresh_token"}]
PasswordForm ==
    [grant |-> "password", refreshToken |-> "",
     keys |-> {"grant_type", "username", "password", "scope", "type"}]
\* A read of c.token for the Authorization header: the value read and the
\* goroutine holding the mutex at that moment (0: nobody).
HeaderRead(tok, holder, prefix) ==
    [done |-> TRUE, token |-> tok, holder |-> holder, prefix |-> prefix]
NoRead == [done |-> FALSE, token |-> <<>>, holder |-> 0, prefix |-> <<>>]

\* The "details" member of a response body: absent, a JSON value that is no
\* object, or an object with the shipment's own fields (id, customId), a
\* "shipment" member and a "shipments" array.
NoDetails ==
    [kind |-> "absent", rec |-> Record(0, ""), hasShipment |-> FALSE,
     shipment |-> Record(0, ""), shipments |-> <<>>]
DetailsString ==
    [kind |-> "string", rec |-> Record(0, ""), hasShipment |-> FALSE,
     shipment |-> Record(0, ""), shipments |-> <<>>]
DetailsObject(rec, hasShipment, shipment, ships) ==
    [kind |-> "object", rec |-> rec, hasShipment |-> hasShipment,
     shipment |-> shipment, shipments |-> ships]
\* The body of a 200 response to GET shipments/{id} or POST shipments: a
\* JSON object with the shipment's fields at the top and a details member,
\* a JSON array, or no JSON at all.
ShipmentBody(rec, det) == [kind |-> "object", rec |-> rec, details |-> det]
ArrayResponse == [kind |-> "array", rec |-> Record(0, ""), details |-> NoDetails]
InvalidResponse == [kind |-> "invalid", rec |-> Record(0, ""), details |-> NoDetails]
\* No response yet.
NoResponse == [kind |-> "none", rec |-> Record(0, ""), details |-> NoDetails]
\* The details members and the bodies the decoders are run on.
DetailsValues ==
    {NoDetails, DetailsString}
    \cup {DetailsObject(r, FALSE, Record(0, ""), ss) :
              r \in {Record(0, ""), Record(7, "B")},
              ss \in {<<>>, <<Record(9, "D"), Record(10, "E")>>}}
    \cup {DetailsObject(r, TRUE, sh, ss) :
              r \in {Record(0, ""), Record(7, "B")},
              sh \in {Record(0, ""), Record(8, "C")},
              ss \in {<<>>, <<Record(9, "D"), Record(10, "E")>>}}
ShipmentBodies ==
    {ShipmentBody(r, d) :
        r \in {Record(0, ""), Record(5, ""), Record(0, "A"), Record(5, "A")},
        d \in DetailsValues}
    \cup {ArrayResponse, InvalidResponse}

\* Strings of the request builder, character by character.
Slash == <<"/">>
V1 == <<"v", "1">>
PublicV1 == <<"p", "u", "b", "l", "i", "c", "/", "v", "1">>
PublicAPIHost == <<"p", "u", "b", "l", "i", "c", "a", "p", "i", ".">>
\* Config.TurvoBaseURL: a host on publicapi. or not, followed by nothing, a
\* slash, a prefix with or without slashes.
BaseHosts == {PublicAPIHost \o <<"t">>, <<"a", "p", "p", ".", "t">>}
BaseTails == {<<>>, Slash, Slash \o V1, Slash \o V1 \o Slash,
              Slash \o PublicV1, V1}
BaseURLs == {h \o t : h \in BaseHosts, t \in BaseTails}
\* Config.TurvoAPIPrefix.
ConfigPrefixes == {<<>>, Slash \o V1, V1, <<"/", "a", "p", "i", "/">>}
\* c.token when buildPath runs.
PathTokens == {<<>>, <<"a">>}
\* The path argument of buildPath.
ResourcePaths == {<<"s">>, <<"/", "s">>}
\* What buildPath runs on, and what it gives.
PathIn(base, prefix, tok, path) ==
    [base |-> base, prefix |-> prefix, token |-> tok, path |-> path]
NoPathIn == PathIn(<<>>, <<>>, <<>>, <<>>)
NoBuilt == [prefix |-> <<>>, url |-> <<>>]

(* --------------------------- library helpers -------------------------- *)

\* unicode.IsSpace, the class strings.TrimSpace trims.
IsSpace(ch) ==
    \/ ch \in {" ", "\t", "\n", VerticalTab, "\f", "\r"}
    \/ ch \in {NextLine, NoBreakSpace}
    \/ ch \in UnicodeSpaces

RECURSIVE TrimLeftSpace(_)
TrimLeftSpace(s) ==
    IF s = <<>> THEN s
    ELSE IF IsSpace(Head(s)) THEN TrimLeftSpace(Tail(s)) ELSE s

RECURSIVE TrimRightSpace(_)
TrimRightSpace(s) ==
    IF s = <<>> THEN s
    ELSE IF IsSpace(s[Len(s)]) THEN TrimRightSpace(SubSeq(s, 1, Len(s) - 1)) ELSE s

\* strings.TrimSpace
TrimSpace(s) == TrimRightSpace(TrimLeftSpace(s))

DigitChars == {"0", "1", "2", "3", "4", "5", "6", "7", "8", "9"}

DigitVal(ch) ==
    CASE ch = "0" -> 0 [] ch = "1" -> 1 [] ch = "2" -> 2 [] ch = "3" -> 3
      [] ch = "4" -> 4 [] ch = "5" -> 5 [] ch = "6" -> 6 [] ch = "7" -> 7
      [] ch = "8" -> 8 [] ch = "9" -> 9

RECURSIVE DigitsValue(_, _)
DigitsValue(s, acc) ==
    IF s = <<>> THEN acc ELSE DigitsValue(Tail(s), acc * 10 + DigitVal(Head(s)))

\* strings.TrimLeft(s, "0") of a digit string.
RECURSIVE TrimLeadingZeros(_)
TrimLeadingZeros(s) ==
    IF s # <<>> /\ Head(s) = "0" THEN TrimLeadingZeros(Tail(s)) ELSE s

\* a > b for two digit strings of one length.
RECURSIVE DigitsGreater(_, _)
DigitsGreater(a, b) ==
    IF a = <<>> THEN FALSE
    ELSE IF Head(a) # Head(b) THEN DigitVal(Head(a)) > DigitVal(Head(b))
    ELSE DigitsGreater(Tail(a), Tail(b))

\* 1<<63, 1<<64 - 1 and 1<<64 in decimal digits.
MinInt64Magnitude ==
            <<"9", "2", "2", "3", "3", "7", "2", "0", "3", "6", "8", "5", "4",
              "7", "7", "5", "8", "0", "8">>
MinInt64 == <<"-">> \o MinInt64Magnitude
MaxUint64 == <<"1", "8", "4", "4", "6", "7", "4", "4", "0", "7", "3", "7", "0",
               "9", "5", "5", "1", "6", "1", "5">>
TwoTo64 ==   <<"1", "8", "4", "4", "6", "7", "4", "4", "0", "7", "3", "7", "0",
               "9", "5", "5", "1", "6", "1", "6">>

\* The digit strings below are natural numbers without leading zeros, <<"0">>
\* being zero.
Canon(digits) ==
    IF TrimLeadingZeros(digits) = <<>> THEN <<"0">> ELSE TrimLeadingZeros(digits)

DigitChar(n) == <<"0", "1", "2", "3", "4", "5", "6", "7", "8", "9">>[n + 1]

\* strconv.Itoa of a natural number.
RECURSIVE Itoa(_)
Itoa(n) == IF n < 10 THEN <<DigitChar(n)>> ELSE Itoa(n \div 10) \o <<DigitChar(n % 10)>>

\* The magnitude written by digits is beyond limit.
DigitsBeyond(digits, limit) ==
    LET d == TrimLeadingZeros(digits)
    IN  \/ Len(d) > Len(limit)
        \/ Len(d) = Len(limit) /\ DigitsGreater(d, limit)

\* a < b
BigLess(a, b) == DigitsBeyond(b, a)

\* a - b for a >= b: the digits from position i leftwards put before acc,
\* borrow being what the digit to the right borrowed.
RECURSIVE SubDigits(_, _, _, _, _)
SubDigits(a, b, i, borrow, acc) ==
    IF i = 0 THEN acc
    ELSE LET k == i - (Len(a) - Len(b))
             d == DigitVal(a[i]) - (IF k >= 1 THEN DigitVal(b[k]) ELSE 0) - borrow
         IN  IF d < 0
             THEN SubDigits(a, b, i - 1, 1, <<DigitChar(d + 10)>> \o acc)
             ELSE SubDigits(a, b, i - 1, 0, <<DigitChar(d)>> \o acc)

BigSub(a, b) == Canon(SubDigits(a, b, Len(a), 0, <<>>))

\* r, less than ten times m, reduced below m.
RECURSIVE Reduce(_, _)
Reduce(r, m) == IF BigLess(r, m) THEN r ELSE Reduce(BigSub(r, m), m)

\* The remainder of p by m by long division, r (below m) being what is left
\* of the digits of p before position i.
RECURSIVE ModFrom(_, _, _, _)
ModFrom(p, m, i, r) ==
    IF BigLess(r, m) /\ i <= Len(p)
    THEN ModFrom(p, m, i + 1, Reduce(Canon(r \o <<p[i]>>), m))
    ELSE r

\* The first Len(m) - 1 digits of p are a number below m.
BigMod(p, m) ==
    IF Len(p) < Len(m) THEN Canon(p)
    ELSE ModFrom(p, m, Len(m), Canon(SubSeq(p, 1, Len(m) - 1)))

\* The int64 a 64-bit multiplication leaves of a product whose sign is neg
\* and whose magnitude is p: the product modulo 1<<64, read in two's
\* complement.
WrapInt64(neg, p) ==
    LET u == BigMod(p, TwoTo64)
    IN  IF u = <<"0">> THEN [neg |-> FALSE, mag |-> u]
        ELSE IF ~neg
        THEN IF BigLess(u, MinInt64Magnitude)
             THEN [neg |-> FALSE, mag |-> u]
             ELSE [neg |-> TRUE, mag |-> BigSub(TwoTo64, u)]
        ELSE IF ~BigLess(MinInt64Magnitude, u)
             THEN [neg |-> TRUE, mag |-> u]
             ELSE [neg |-> FALSE, mag |-> BigSub(TwoTo64, u)]

NineZeros == [i \in 1..9 |-> "0"]

\* A time.Duration of ns nanoseconds (a digit string), negative when neg.
\* The clock counts whole seconds: s is the duration in seconds when it is
\* a whole number of less than ten digits (held), and 0 when it is not.
Duration(neg, ns) ==
    LET secs == SubSeq(ns, 1, Len(ns) - 9)
        held == \/ ns = <<"0">>
                \/ /\ Len(ns) >= 10 /\ Len(ns) <= 18
                   /\ SubSeq(ns, Len(ns) - 8, Len(ns)) = NineZeros
    IN  [held |-> held,
         s |-> IF ~held \/ ns = <<"0">> THEN 0
               ELSE IF neg THEN 0 - DigitsValue(secs, 0) ELSE DigitsValue(secs, 0),
         neg |-> neg /\ ns # <<"0">>,
         ns |-> ns]

\* n * time.Second for an integer n of less than ten digits.
Seconds(n) ==
    IF n = 0 THEN Duration(FALSE, <<"0">>)
    ELSE Duration(n < 0, Itoa(IF n < 0 THEN 0 - n ELSE n) \o NineZeros)

\* time.Duration(v) * time.Second for an int v: a multiplication of int64
\* nanoseconds, which wraps beyond 1<<63 - 1.
SecondsDuration(v) ==
    IF ~v.wide THEN Seconds(v.val)
    ELSE LET neg == Head(v.val) = "-"
             mag == IF neg THEN Tail(v.val) ELSE v.val
             w == WrapInt64(neg, mag \o NineZeros)
         IN  Duration(w.neg, w.mag)

\* v > 0 for an int v.
IsPositive(v) == IF v.wide THEN Head(v.val) # "-" ELSE v.val > 0

\* strconv.Atoi goes through the characters from the left: what it meets
\* first from position i on, a character that is no digit ("syntax"), the
\* digit at which the number leaves 64 unsigned bits ("range"), or the end.
RECURSIVE AtoiScan(_, _)
AtoiScan(digits, i) ==
    IF i > Len(digits) THEN "end"
    ELSE IF digits[i] \notin DigitChars THEN "syntax"
    ELSE IF DigitsBeyond(SubSeq(digits, 1, i), MaxUint64) THEN "range"
    ELSE AtoiScan(digits, i + 1)

\* strconv.Atoi: an optional sign followed by one or more decimal digits. A
\* string that is no number gives 0 and a syntax error; a number outside the
\* 64 bits gives the nearest bound and a range error (range), also when
\* characters that are no digits follow the digit at which it left 64
\* unsigned bits.
Atoi(s) ==
    LET signed == s # <<>> /\ Head(s) \in {"+", "-"}
        neg == signed /\ Head(s) = "-"
        digits == IF signed THEN Tail(s) ELSE s
        met == IF digits = <<>> THEN "syntax" ELSE AtoiScan(digits, 1)
        mag == TrimLeadingZeros(digits)
    IN  IF met = "syntax"
        THEN [ok |-> FALSE, range |-> FALSE, wide |-> FALSE, val |-> 0]
        ELSE IF neg /\ (met = "range" \/ DigitsBeyond(digits, MinInt64Magnitude))
        THEN [ok |-> FALSE, range |-> TRUE, wide |-> TRUE, val |-> MinInt64]
        ELSE IF ~neg /\ (met = "range" \/ DigitsBeyond(digits, MaxInt64))
        THEN [ok |-> FALSE, range |-> TRUE, wide |-> TRUE, val |-> MaxInt64]
        ELSE IF Len(mag) >= 10
        THEN [ok |-> TRUE, range |-> FALSE, wide |-> TRUE,
              val |-> IF neg THEN <<"-">> \o mag ELSE mag]
        ELSE [ok |-> TRUE, range |-> FALSE, wide |-> FALSE,
              val |-> IF neg
                      THEN 0 - DigitsValue(digits, 0)
                      ELSE DigitsValue(digits, 0)]

\* strings.Join([]string{a, b}, ", ")
JoinCommaSpace(a, b) == a \o <<",", " ">> \o b

\* strings.TrimLeft(s, c) and strings.TrimRight(s, c) for a one-character
\* cutset, and strings.Trim.
RECURSIVE TrimLeftChar(_, _)
TrimLeftChar(s, c) ==
    IF s = <<>> THEN s
    ELSE IF Head(s) = c THEN TrimLeftChar(Tail(s), c) ELSE s

RECURSIVE TrimRightChar(_, _)
TrimRightChar(s, c) ==
    IF s = <<>> THEN s
    ELSE IF s[Len(s)] = c THEN TrimRightChar(SubSeq(s, 1, Len(s) - 1), c) ELSE s

TrimChar(s, c) == TrimRightChar(TrimLeftChar(s, c), c)

\* strings.HasSuffix
HasSuffix(s, suf) ==
    Len(suf) <= Len(s) /\ SubSeq(s, Len(s) - Len(suf) + 1, Len(s)) = suf

\* strings.Contains
Contains(s, sub) ==
    \E i \in 0..(Len(s) - Len(sub)) : SubSeq(s, i + 1, i + Len(sub)) = sub

(* ------------------------------ errors -------------------------------- *)

\* A nil error (and the result of a call that succeeded).
Nil == [kind |-> "nil", src |-> "", status |-> 0, retryAfter |-> 0]
\* A call that has not returned.
NoResult == [kind |-> "none", src |-> "", status |-> 0, retryAfter |-> 0]
\* RateLimitedError{RetryAfter: ra}
RateLimitedError(ra) ==
    [kind |-> "RateLimitedError", src |-> "oauth", status |-> 0, retryAfter |-> ra]
\* fmt.Errorf("...: %s - %s", resp.Status, body): a plain error naming the status.
StatusError(src, st) ==
    [kind |-> "errorString", src |-> src, status |-> st, retryAfter |-> 0]
\* fmt.Errorf("empty access_token from oauth")
EmptyTokenError == [kind |-> "errorString", src |-> "oauth", status |-> StatusOK, retryAfter |-> 0]
\* The error of json.Unmarshal on the token response.
DecodeError == [kind |-> "decode", src |-> "oauth", status |-> StatusOK, retryAfter |-> 0]
\* The error of httpClient.Do for a context that is done: context.Canceled
\* or context.DeadlineExceeded, wrapped in a *url.Error.
ContextCanceled(src) ==
    [kind |-> "canceled", src |-> src, status |-> 0, retryAfter |-> 0]
\* Any other error of httpClient.Do (connection failure, client timeout).
TransportError(src) ==
    [kind |-> "transport", src |-> src, status |-> 0, retryAfter |-> 0]
\* The error of json.Unmarshal on a list response.
ListDecodeError == [kind |-> "decode", src |-> "resource", status |-> StatusOK, retryAfter |-> 0]
\* fmt.Errorf("shipment not found for external id %s", externalID)
NotFoundError == [kind |-> "errorString", src |-> "notFound", status |-> 0, retryAfter |-> 0]
\* The error of json.Unmarshal on the response of GetShipment.
ShipmentDecodeError == [kind |-> "decode", src |-> "shipment", status |-> StatusOK, retryAfter |-> 0]
\* fmt.Errorf("empty shipment response")
EmptyShipmentError == [kind |-> "errorString", src |-> "emptyShipment", status |-> StatusOK, retryAfter |-> 0]
\* The error of io.ReadAll on the body of a resource response.
ReadError == [kind |-> "read", src |-> "resource", status |-> StatusOK, retryAfter |-> 0]
\* fmt.Errorf("create decode error: %w", err)
CreateDecodeError == [kind |-> "errorString", src |-> "createDecode", status |-> StatusOK, retryAfter |-> 0]
\* What a decoder returns: a shipment and a nil error, or an error.
Decoded(rec) == [err |-> Nil, s |-> rec]
DecodeFailed(err) == [err |-> err, s |-> Record(0, "")]
NoDecoded == DecodeFailed(NoResult)
\* The errors a list operation may return to its caller.
ListErrors == {RateLimitedError(30), RateLimitedError(0), RateLimitedError(-1),
               StatusError("resource", 500), ReadError, ListDecodeError}

(* ------------------------------- state -------------------------------- *)

VARIABLES
    now,               \* the wall clock
    token,             \* Client.token
    tokenExp,          \* Client.tokenExp
    refresh,           \* Client.refresh
    nextOAuthAttempt,  \* Client.nextOAuthAttempt
    mu,                \* Client.mu: 0 when free, else the caller holding it
    pc,                \* where each caller is
    op,                \* the resource operation each caller runs
    useRefresh,        \* the useRefresh argument of each caller's fetchToken
    ferr,              \* what each caller's latest fetchToken returned
    result,            \* what each caller's operation returned
    resReqs,           \* resource requests the caller's current call has issued
    tokReqs,           \* token requests the caller has issued since its call
                       \* began or since its latest 401
    hpc,               \* where the ListLoads handler is
    shipments,         \* the page ListShipmentsPageWithQuery returned
    enriched,          \* the copy of the page the details are merged into
    pending,           \* records of the page that need a detail fetch
    sem,               \* elements in the semaphore channel
    spawnIdx,          \* index the spawning loop is at
    results,           \* the results channel
    collected,         \* results the collecting loop has received (k)
    worker,            \* where the goroutine of each index is
    httpStatus,        \* status of the handler's response (0: none yet)
    retryAfterHeader   \* seconds in the response's Retry-After header (0: not set)

VARIABLES
    spc,               \* where the caller of a list operation is
    listOp,            \* the list operation that returned last
    dataset,           \* the records the provider holds
    served,            \* records the provider serves per page
    wanted,            \* externalID of FindShipmentByExternalID
    start,             \* ListShipments: start
    page,              \* ListShipments: page
    all,               \* ListShipments: all
    pageReqs,          \* the start of every page ListShipments requested
    lastBody,          \* body of the latest list response
    items,             \* shipments the latest list call returned
    meta,              \* pagination the latest list call returned
    lerr,              \* error the latest list call returned
    found              \* what FindShipmentByExternalID returned

scanVars == <<spc, listOp, dataset, served, wanted, start, page, all, pageReqs,
              lastBody, items, meta, lerr, found>>

VARIABLES
    mpc,               \* where the caller of the mapper is
    load,              \* the load handed to ToTurvoShipment
    wire,              \* the shipment ToTurvoShipment returned
    wireAt,            \* the clock when ToTurvoShipment ran
    returned,          \* the shipment the provider returned
    back               \* the load FromTurvoShipment returned

mapVars == <<mpc, load, wire, wireAt, returned, back>>

VARIABLES
    tokResp            \* the latest response of the token endpoint, until
                       \* the caller it went to has acted on fetchToken's result

VARIABLES
    cancelled          \* whether the context of each caller's call is done

VARIABLES
    tokForm,           \* the form of the latest token request
    bearerRead         \* each caller's read of c.token for its latest
                       \* resource request

reqVars == <<tokForm, bearerRead>>

VARIABLES
    dpc,               \* where the caller of the response decoders is
    respBody,          \* the body of the 200 response being decoded
    got,               \* what GetShipment returned for it
    created            \* what CreateShipment returned for it

decVars == <<dpc, respBody, got, created>>

VARIABLES
    ppc,               \* where the caller of buildPath is
    pathIn,            \* the configuration, token and path buildPath ran on
    built              \* the prefix buildPath chose and the URL it returned

pathVars == <<ppc, pathIn, built>>

clientVars == <<now, token, tokenExp, refresh, nextOAuthAttempt, mu>>
callerVars == <<pc, op, useRefresh, ferr, result, resReqs, tokReqs>>
enrichVars == <<hpc, shipments, enriched, pending, sem, spawnIdx, results,
                collected, worker, httpStatus, retryAfterHeader>>
vars == <<clientVars, callerVars, enrichVars, scanVars, mapVars, tokResp, cancelled,
          reqVars, decVars, pathVars>>

\* NewClient: no token, no cooldown; nobody is calling, and the handler has
\* not listed a page.
Init ==
    /\ now = 0
    /\ token = <<>>
    /\ tokenExp = 0
    /\ refresh = ""
    /\ nextOAuthAttempt = 0
    /\ mu = 0
    /\ pc = [p \in Callers |-> "idle"]
    /\ op = [p \in Callers |-> "GetShipment"]
    /\ useRefresh = [p \in Callers |-> FALSE]
    /\ ferr = [p \in Callers |-> Nil]
    /\ result = [p \in Callers |-> NoResult]
    /\ resReqs = [p \in Callers |-> 0]
    /\ tokReqs = [p \in Callers |-> 0]
    /\ hpc = "list"
    /\ shipments = <<>>
    /\ enriched = <<>>
    /\ pending = 0
    /\ sem = 0
    /\ spawnIdx = 1
    /\ results = <<>>
    /\ collected = 0
    /\ worker = <<>>
    /\ httpStatus = 0
    /\ retryAfterHeader = 0
    /\ spc = "idle"
    /\ listOp = ""
    /\ dataset = <<>>
    /\ served = 1
    /\ wanted = ""
    /\ start = 0
    /\ page = 0
    /\ all = <<>>
    /\ pageReqs = <<>>
    /\ lastBody = NoBody
    /\ items = <<>>
    /\ meta = ZeroPagination
    /\ lerr = Nil
    /\ found = [err |-> NoResult, ok |-> FALSE, s |-> Record(0, "")]
    /\ tokResp = NoTokResp
    /\ cancelled = [p \in Callers |-> FALSE]
    /\ mpc = "idle"
    /\ load = ZeroLoad
    /\ wire = ZeroWire
    /\ wireAt = 0
    /\ returned = ZeroWire
    /\ back = ZeroLoad
    /\ tokForm = NoForm
    /\ bearerRead = [p \in Callers |-> NoRead]
    /\ dpc = "idle"
    /\ respBody = NoResponse
    /\ got = NoDecoded
    /\ created = NoDecoded
    /\ ppc = "idle"
    /\ pathIn = NoPathIn
    /\ built = NoBuilt

(* --------------------------- token manager ---------------------------- *)

\* Mutant of MutexFree: fetchToken does not take the mutex.
MutexIgnored == TRUE

\* c.mu.Lock() returns only when nobody holds the mutex.
MutexFree == mu = 0

\* Mutant of tokenValid: time.Since in place of time.Until.
tokenValidSince == token # <<>> /\ now - tokenExp > ExpirySkew

\* Mutant of tokenValid: >= in place of >.
tokenValidAtSkew == token # <<>> /\ tokenExp - now >= ExpirySkew

\* c.token != "" && time.Until(c.tokenExp) > 60*time.Second
tokenValid == token # <<>> /\ tokenExp - now > ExpirySkew

\* Mutant of inCooldown: After in place of Before.
inCooldownAfter == now > nextOAuthAttempt

\* time.Now().Before(c.nextOAuthAttempt)
inCooldown == now < nextOAuthAttempt

\* fetchToken returns err to caller p and unlocks the mutex.
fetchReturns(p, err) ==
    /\ pc' = [pc EXCEPT ![p] = "fetched"]
    /\ ferr' = [ferr EXCEPT ![p] = err]
    /\ mu' = 0

\* fetchToken, lines 65-70: a valid token is reused.
FetchReuse(p) ==
    /\ pc[p] = "fetchToken"
    /\ MutexFree
    /\ tokenValid
    /\ fetchReturns(p, Nil)
    /\ UNCHANGED <<now, token, tokenExp, refresh, nextOAuthAttempt>>
    /\ UNCHANGED <<op, useRefresh, result, resReqs, tokReqs>>
    /\ UNCHANGED <<enrichVars, scanVars, mapVars, cancelled, reqVars, decVars, pathVars>>
    /\ UNCHANGED tokResp

\* fetchToken, lines 71-75: inside the cooldown the call fails at once.
FetchCooldown(p) ==
    /\ pc[p] = "fetchToken"
    /\ MutexFree
    /\ ~tokenValid
    /\ inCooldown
    /\ fetchReturns(p, RateLimitedError(nextOAuthAttempt - now))
    /\ UNCHANGED <<now, token, tokenExp, refresh, nextOAuthAttempt>>
    /\ UNCHANGED <<op, useRefresh, result, resReqs, tokReqs>>
    /\ UNCHANGED <<enrichVars, scanVars, mapVars, cancelled, reqVars, decVars, pathVars>>
    /\ UNCHANGED tokResp

\* Mutant of usesRefreshGrant: useRefresh alone decides.
usesRefreshGrantWhenAsked(ur, rt) == ur

\* fetchToken, line 88: useRefresh && c.refresh != ""
usesRefreshGrant(ur, rt) == ur /\ rt # ""

\* fetchToken, lines 83-97: the form of the token request.
formOf(ur, rt) ==
    IF usesRefreshGrant(ur, rt) THEN RefreshForm(rt) ELSE PasswordForm

\* fetchToken, lines 77-108: the token request is sent; the mutex stays held.
FetchIssue(p) ==
    /\ pc[p] = "fetchToken"
    /\ MutexFree
    /\ ~tokenValid
    /\ ~inCooldown
    /\ mu' = p
    /\ pc' = [pc EXCEPT ![p] = "oauth"]
    /\ tokReqs' = [tokReqs EXCEPT ![p] = @ + 1]
    /\ UNCHANGED <<now, token, tokenExp, refresh, nextOAuthAttempt>>
    /\ tokForm' = formOf(useRefresh[p], refresh)
    /\ UNCHANGED <<op, useRefresh, ferr, result, resReqs>>
    /\ UNCHANGED <<enrichVars, scanVars, mapVars, cancelled, bearerRead, decVars, pathVars>>
    /\ UNCHANGED tokResp

\* fetchToken, lines 108-111: httpClient.Do fails.
TokenTransportError(p) ==
    /\ pc[p] = "oauth"
    /\ ~cancelled[p]
    /\ fetchReturns(p, TransportError("oauth"))
    /\ UNCHANGED <<now, token, tokenExp, refresh, nextOAuthAttempt>>
    /\ UNCHANGED <<op, useRefresh, result, resReqs, tokReqs>>
    /\ UNCHANGED <<enrichVars, scanVars, mapVars, cancelled, reqVars, decVars, pathVars>>
    /\ tokResp' = NoTokResp

\* Mutant of cooldownOf: any integer in the header is taken, positive or not.
cooldownOfAnyInteger(hdr) ==
    IF hdr # <<>> /\ Atoi(hdr).ok THEN SecondsDuration(Atoi(hdr)) ELSE Seconds(DefaultCooldown)

\* fetchToken, lines 100-111: the context of the call is done and
\* httpClient.Do returns its error.
TokenCanceled(p) ==
    /\ pc[p] = "oauth"
    /\ cancelled[p]
    /\ fetchReturns(p, ContextCanceled("oauth"))
    /\ UNCHANGED <<now, token, tokenExp, refresh, nextOAuthAttempt>>
    /\ UNCHANGED <<op, useRefresh, result, resReqs, tokReqs>>
    /\ UNCHANGED <<enrichVars, scanVars, mapVars, cancelled, reqVars, decVars, pathVars>>
    /\ tokResp' = NoTokResp

\* The cooldown a 429 token response asks for (lines 125-130): 60 seconds,
\* or time.Duration(secs) * time.Second for a header that is a positive int.
cooldownOf(hdr) ==
    IF hdr # <<>> /\ Atoi(hdr).ok /\ IsPositive(Atoi(hdr))
    THEN SecondsDuration(Atoi(hdr))
    ELSE Seconds(DefaultCooldown)

\* The cooldown of each header the token endpoint sends, computed once. An
\* action takes the cooldowns held in whole seconds.
cooldowns == [hdr \in RetryAfterHeaders |-> cooldownOf(hdr)]

\* fetchToken, lines 124-133: 429 from the token endpoint.
TokenRateLimited(p, hdr) ==
    /\ pc[p] = "oauth"
    /\ ~cancelled[p]
    /\ cooldowns[hdr].held
    /\ nextOAuthAttempt' = now + cooldowns[hdr].s
    /\ fetchReturns(p, RateLimitedError(cooldowns[hdr].s))
    /\ UNCHANGED <<now, token, tokenExp, refresh>>
    /\ UNCHANGED <<op, useRefresh, result, resReqs, tokReqs>>
    /\ UNCHANGED <<enrichVars, scanVars, mapVars, cancelled, reqVars, decVars, pathVars>>
    /\ tokResp' = TokResp(StatusTooManyRequests, hdr, FALSE, <<>>, "", GoInt(0))

\* fetchToken, lines 134-136: any other status than 200.
TokenRejected(p, st) ==
    /\ pc[p] = "oauth"
    /\ ~cancelled[p]
    /\ st # StatusOK /\ st # StatusTooManyRequests
    /\ fetchReturns(p, StatusError("oauth", st))
    /\ UNCHANGED <<now, token, tokenExp, refresh, nextOAuthAttempt>>
    /\ UNCHANGED <<op, useRefresh, result, resReqs, tokReqs>>
    /\ UNCHANGED <<enrichVars, scanVars, mapVars, cancelled, reqVars, decVars, pathVars>>
    /\ tokResp' = TokResp(st, <<>>, FALSE, <<>>, "", GoInt(0))

\* Mutant of lifetimeOf: expires_in is taken as it comes.
lifetimeOfUnchecked(expiresIn) == SecondsDuration(expiresIn)

\* The lifetime stored for a token response (lines 152-155): 12 hours for
\* an expires_in that is not positive, or
\* time.Duration(tok.ExpiresIn) * time.Second.
lifetimeOf(expiresIn) ==
    IF ~IsPositive(expiresIn) THEN Seconds(DefaultExpiresIn)
    ELSE SecondsDuration(expiresIn)

\* The lifetime of each expires_in the token endpoint sends, computed once.
\* An action takes the lifetimes held in whole seconds.
lifetimes == [expiresIn \in ExpiresInValues |-> lifetimeOf(expiresIn)]

\* Mutant of tokenUsable: whatever a 200 carries is stored.
tokenUsableUnchecked(decodes, access) == TRUE

\* fetchToken, lines 144-149: the body of the 200 decodes and its
\* access_token is not empty after trimming.
tokenUsable(decodes, access) == decodes /\ TrimSpace(access) # <<>>

\* fetchToken, lines 137-149: a 200 whose body does not decode, or whose
\* access_token is empty after trimming.
TokenUnusable(p, decodes, access) ==
    /\ pc[p] = "oauth"
    /\ ~cancelled[p]
    /\ ~tokenUsable(decodes, access)
    /\ fetchReturns(p, IF ~decodes THEN DecodeError ELSE EmptyTokenError)
    /\ UNCHANGED <<now, token, tokenExp, refresh, nextOAuthAttempt>>
    /\ UNCHANGED <<op, useRefresh, result, resReqs, tokReqs>>
    /\ UNCHANGED <<enrichVars, scanVars, mapVars, cancelled, reqVars, decVars, pathVars>>
    /\ tokResp' = TokResp(StatusOK, <<>>, decodes, IF decodes THEN access ELSE <<>>, "", GoInt(0))

\* fetchToken, lines 137-157: a 200 carrying an access token.
TokenStored(p, access, rtok, expiresIn) ==
    /\ pc[p] = "oauth"
    /\ ~cancelled[p]
    /\ tokenUsable(TRUE, access)
    /\ token' = TrimSpace(access)
    /\ refresh' = rtok
    /\ lifetimes[expiresIn].held
    /\ tokenExp' = now + lifetimes[expiresIn].s
    /\ nextOAuthAttempt' = 0
    /\ fetchReturns(p, Nil)
    /\ UNCHANGED <<now, op, useRefresh, result, resReqs, tokReqs>>
    /\ UNCHANGED <<enrichVars, scanVars, mapVars, cancelled, reqVars, decVars, pathVars>>
    /\ tokResp' = TokResp(StatusOK, <<>>, TRUE, access, rtok, expiresIn)

(* ------------------------ resource operations ------------------------- *)

\* Mutant of prefixOf: the configured prefix, whatever the token.
prefixOfConfigured(base, cfgPrefix, tok) == TrimChar(cfgPrefix, "/")

\* buildPath, lines 162-168: the prefix for a base without trailing slashes.
prefixOf(base, cfgPrefix, tok) ==
    LET prefix == TrimChar(cfgPrefix, "/")
    IN  IF tok # <<>> THEN V1
        ELSE IF Contains(base, PublicAPIHost)
                /\ (prefix = V1 \/ prefix = Slash \o V1)
        THEN PublicV1
        ELSE prefix

\* buildPath, line 170
addPrefix(base, prefix) ==
    prefix # <<>> /\ ~(HasSuffix(base, Slash \o prefix) \/ HasSuffix(base, prefix))

\* buildPath, lines 160-177
buildPath(in) ==
    LET base == TrimRightChar(in.base, "/")
        prefix == prefixOf(base, in.prefix, in.token)
        res == TrimLeftChar(in.path, "/")
    IN  [prefix |-> prefix,
         url |-> (IF addPrefix(base, prefix) THEN base \o Slash \o prefix ELSE base)
                 \o Slash \o res]

\* A handler calls one of the five resource operations, which calls
\* newRequest, which calls fetchToken(ctx, false).
Call(p, o) ==
    /\ pc[p] = "idle"
    /\ pc' = [pc EXCEPT ![p] = "fetchToken"]
    /\ op' = [op EXCEPT ![p] = o]
    /\ useRefresh' = [useRefresh EXCEPT ![p] = FALSE]
    /\ ferr' = [ferr EXCEPT ![p] = Nil]
    /\ result' = [result EXCEPT ![p] = NoResult]
    /\ resReqs' = [resReqs EXCEPT ![p] = 0]
    /\ tokReqs' = [tokReqs EXCEPT ![p] = 0]
    /\ UNCHANGED clientVars
    /\ UNCHANGED <<enrichVars, scanVars, mapVars, decVars, pathVars>>
    /\ cancelled' = [cancelled EXCEPT ![p] = FALSE]
    /\ bearerRead' = [bearerRead EXCEPT ![p] = NoRead]
    /\ UNCHANGED <<tokResp, tokForm>>

\* Mutant of newRequestProceeds: the error of fetchToken is dropped.
newRequestIgnoresError(err) == TRUE

\* newRequest goes on to build the request only when fetchToken returned nil.
newRequestProceeds(err) == err = Nil

\* newRequest, lines 180-199, and the operation's httpClient.Do: when
\* fetchToken returned nil the resource request is built and sent.  c.token
\* is read for the Authorization header (line 193) after fetchToken has
\* unlocked the mutex: the read takes the value the field has at that
\* moment, whoever holds the mutex; so does buildPath (line 164), which
\* runs on the configured base URL and API prefix.
NewRequestSends(p) ==
    /\ pc[p] = "fetched"
    /\ ~useRefresh[p]
    /\ newRequestProceeds(ferr[p])
    /\ resReqs[p] < MaxResReqs
    /\ pc' = [pc EXCEPT ![p] = "resource"]
    /\ resReqs' = [resReqs EXCEPT ![p] = @ + 1]
    /\ \E b \in BaseURLs, cp \in ConfigPrefixes :
          bearerRead' = [bearerRead EXCEPT ![p] =
              HeaderRead(token, mu, buildPath(PathIn(b, cp, token, <<"s">>)).prefix)]
    /\ UNCHANGED <<clientVars, op, useRefresh, ferr, result, tokReqs>>
    /\ UNCHANGED <<enrichVars, scanVars, mapVars, cancelled, tokForm, decVars, pathVars>>
    /\ tokResp' = NoTokResp

\* newRequest, lines 180-182: the operation returns fetchToken's error.
NewRequestFails(p) ==
    /\ pc[p] = "fetched"
    /\ ~useRefresh[p]
    /\ ~newRequestProceeds(ferr[p])
    /\ pc' = [pc EXCEPT ![p] = "idle"]
    /\ result' = [result EXCEPT ![p] = ferr[p]]
    /\ UNCHANGED <<clientVars, op, useRefresh, ferr, resReqs, tokReqs>>
    /\ UNCHANGED <<enrichVars, scanVars, mapVars, cancelled, reqVars, decVars, pathVars>>
    /\ tokResp' = NoTokResp

\* httpClient.Do of the resource request fails.
ResourceTransportError(p) ==
    /\ pc[p] = "resource"
    /\ ~cancelled[p]
    /\ pc' = [pc EXCEPT ![p] = "idle"]
    /\ result' = [result EXCEPT ![p] = TransportError("resource")]
    /\ UNCHANGED <<clientVars, op, useRefresh, ferr, resReqs, tokReqs>>
    /\ UNCHANGED <<enrichVars, scanVars, mapVars, cancelled, reqVars, decVars, pathVars>>
    /\ UNCHANGED tokResp

\* The context of the call is done and httpClient.Do of the resource
\* request returns its error, which the operation returns.
ResourceCanceled(p) ==
    /\ pc[p] = "resource"
    /\ cancelled[p]
    /\ pc' = [pc EXCEPT ![p] = "idle"]
    /\ result' = [result EXCEPT ![p] = ContextCanceled("resource")]
    /\ UNCHANGED <<clientVars, op, useRefresh, ferr, resReqs, tokReqs>>
    /\ UNCHANGED <<enrichVars, scanVars, mapVars, cancelled, reqVars, decVars, pathVars>>
    /\ UNCHANGED tokResp

\* The caller's context is cancelled, or its deadline passes, while its call
\* is running.
Cancel(p) ==
    /\ pc[p] # "idle"
    /\ ~cancelled[p]
    /\ cancelled' = [cancelled EXCEPT ![p] = TRUE]
    /\ UNCHANGED <<clientVars, callerVars, enrichVars, scanVars, mapVars, tokResp>>
    /\ UNCHANGED <<reqVars, decVars, pathVars>>

\* The resource response is a 401: the operation calls fetchToken(ctx, true).
ResourceUnauthorized(p) ==
    /\ pc[p] = "resource"
    /\ ~cancelled[p]
    /\ pc' = [pc EXCEPT ![p] = "fetchToken"]
    /\ useRefresh' = [useRefresh EXCEPT ![p] = TRUE]
    /\ tokReqs' = [tokReqs EXCEPT ![p] = 0]
    /\ UNCHANGED <<clientVars, op, ferr, result, resReqs>>
    /\ UNCHANGED <<enrichVars, scanVars, mapVars, cancelled, reqVars, decVars, pathVars>>
    /\ UNCHANGED tokResp

\* The 401 branch calls the operation again only when fetchToken returned nil.
retryProceeds(err) == err = Nil

\* After a 401 and a fetchToken(ctx, true) that returned nil the operation
\* calls itself, which calls newRequest, which calls fetchToken(ctx, false).
RetryRecurses(p) ==
    /\ pc[p] = "fetched"
    /\ useRefresh[p]
    /\ retryProceeds(ferr[p])
    /\ pc' = [pc EXCEPT ![p] = "fetchToken"]
    /\ useRefresh' = [useRefresh EXCEPT ![p] = FALSE]
    /\ UNCHANGED <<clientVars, op, ferr, result, resReqs, tokReqs>>
    /\ UNCHANGED <<enrichVars, scanVars, mapVars, cancelled, reqVars, decVars, pathVars>>
    /\ tokResp' = NoTokResp

\* After a 401 and a fetchToken(ctx, true) that failed the operation falls
\* through to its status check, which reports the 401.
RetryGivesUp(p) ==
    /\ pc[p] = "fetched"
    /\ useRefresh[p]
    /\ ~retryProceeds(ferr[p])
    /\ pc' = [pc EXCEPT ![p] = "idle"]
    /\ result' = [result EXCEPT ![p] = StatusError("resource", StatusUnauthorized)]
    /\ UNCHANGED <<clientVars, op, useRefresh, ferr, resReqs, tokReqs>>
    /\ UNCHANGED <<enrichVars, scanVars, mapVars, cancelled, reqVars, decVars, pathVars>>
    /\ tokResp' = NoTokResp

(* ------------------- decoding a resource response -------------------- *)

\* atoiOrZero
atoiOrZero(str) == Atoi(str).val

\* Mutant of parseListBody: the envelope's pagination is dropped and
\* pagination synthesized for every shape.
parseListBodySynthesized(body, st) ==
    IF body.kind \in {"envelope", "array"} /\ body.hasShipments
    THEN [err |-> Nil, items |-> body.shipments,
          meta |-> Pagination(st, Len(body.shipments), Len(body.shipments),
                              FALSE, "")]
    ELSE [err |-> ListDecodeError, items |-> <<>>, meta |-> ZeroPagination]

\* Mutant of parseListBody: an envelope is taken only when its shipments
\* array has elements.
parseListBodyNonEmpty(body, st) ==
    IF body.kind = "envelope" /\ body.hasShipments /\ body.shipments # <<>>
    THEN [err |-> Nil, items |-> body.shipments, meta |-> body.pagination]
    ELSE IF body.kind = "array"
    THEN [err |-> Nil, items |-> body.shipments,
          meta |-> Pagination(st, Len(body.shipments), Len(body.shipments),
                              FALSE, "")]
    ELSE [err |-> ListDecodeError, items |-> <<>>, meta |-> ZeroPagination]

\* What a list operation returns for a 200 response with the given body,
\* st being the start it was called with (ListShipmentsPage lines 297-330,
\* ListShipmentsPageWithQuery lines 514-547): the envelope when it decodes
\* and carries a shipments array, else the bare array, else an error.
parseListBody(body, st) ==
    IF body.kind = "envelope" /\ body.hasShipments
    THEN [err |-> Nil, items |-> body.shipments, meta |-> body.pagination]
    ELSE IF body.kind = "array"
    THEN [err |-> Nil, items |-> body.shipments,
          meta |-> Pagination(st, Len(body.shipments), Len(body.shipments),
                              FALSE, "")]
    ELSE [err |-> ListDecodeError, items |-> <<>>, meta |-> ZeroPagination]

\* Mutant of bareAccepted: any record that decodes is taken.
bareAcceptedAlways(rec) == TRUE

\* shipment.ID != 0 || shipment.CustomID != ""
bareAccepted(rec) == rec.id # 0 \/ rec.customID # ""

\* GetShipment, lines 385-408: the body as a shipment when it has an id or
\* a custom id, else details.shipment, else details.shipments[0].
decodeGet(body) ==
    IF body.kind = "object" /\ bareAccepted(body.rec)
    THEN Decoded(body.rec)
    ELSE IF body.kind # "object" \/ body.details.kind = "string"
    THEN DecodeFailed(ShipmentDecodeError)
    ELSE IF body.details.hasShipment
    THEN Decoded(body.details.shipment)
    ELSE IF Len(body.details.shipments) > 0
    THEN Decoded(body.details.shipments[1])
    ELSE DecodeFailed(EmptyShipmentError)

\* CreateShipment, lines 440-457: details as a shipment when it has an id
\* or a custom id, else the body as a shipment, whatever it holds.
decodeCreate(body) ==
    IF body.kind = "object" /\ body.details.kind = "object"
       /\ bareAccepted(body.details.rec)
    THEN Decoded(body.details.rec)
    ELSE IF body.kind # "object"
    THEN DecodeFailed(CreateDecodeError)
    ELSE Decoded(body.rec)

\* The body of a 200 response to customers/list: the envelope with or
\* without details.customers, the bare array, and a body that is no JSON.
CustomersEnvelope(has) == [kind |-> "envelope", hasCustomers |-> has]
CustomersArray == [kind |-> "array", hasCustomers |-> FALSE]
CustomersInvalid == [kind |-> "invalid", hasCustomers |-> FALSE]
CustomerBodies ==
    {CustomersEnvelope(TRUE), CustomersEnvelope(FALSE), CustomersArray, CustomersInvalid}

\* ListCustomers, lines 241-262: the envelope when it decodes and carries a
\* customers array, else the bare array, else the error of its decode.
decodeCustomers(body) ==
    IF body.kind = "envelope" /\ body.hasCustomers THEN Nil
    ELSE IF body.kind = "array" THEN Nil
    ELSE ListDecodeError

\* The bodies an accepted response to the operation may carry.
ResponseBodies(o) ==
    CASE o = "ListCustomers" -> CustomerBodies
      [] o \in {"ListShipmentsPage", "ListShipmentsPageWithQuery"} -> QueryBodies
      [] o \in {"GetShipment", "CreateShipment"} -> ShipmentBodies

\* The error the operation returns once it has read the body of an accepted
\* response.
decodeResult(o, body) ==
    CASE o = "ListCustomers" -> decodeCustomers(body)
      [] o \in {"ListShipmentsPage", "ListShipmentsPageWithQuery"} ->
             parseListBody(body, 0).err
      [] o = "GetShipment" -> decodeGet(body).err
      [] o = "CreateShipment" -> decodeCreate(body).err

\* A resource response counts as success: 200, and 201 too for CreateShipment.
statusAccepted(o, st) ==
    IF o = "CreateShipment" THEN st = StatusCreated \/ st = StatusOK
    ELSE st = StatusOK

\* The operation checks io.ReadAll's error on an accepted response; in
\* CreateShipment (line 432) the error is dropped and what was read is
\* decoded.
readChecked(o) == o # "CreateShipment"

\* What the operation returns for a response that is not a 401 and whose
\* body it read: the status error, or what decoding the body gives.
responseResult(o, st, body) ==
    IF statusAccepted(o, st) THEN decodeResult(o, body)
    ELSE StatusError("resource", st)

\* The resource response has a status the operation does not accept, other
\* than 401: the operation returns the status error.
ResourceRejected(p, st) ==
    /\ pc[p] = "resource"
    /\ ~cancelled[p]
    /\ st # StatusUnauthorized
    /\ ~statusAccepted(op[p], st)
    /\ pc' = [pc EXCEPT ![p] = "idle"]
    /\ result' = [result EXCEPT ![p] = StatusError("resource", st)]
    /\ UNCHANGED <<clientVars, op, useRefresh, ferr, resReqs, tokReqs>>
    /\ UNCHANGED <<enrichVars, scanVars, mapVars, cancelled, reqVars, decVars, pathVars>>
    /\ UNCHANGED tokResp

\* The resource response has an accepted status and io.ReadAll fails on its
\* body: the operation returns that error.
ResourceReadFails(p, st) ==
    /\ pc[p] = "resource"
    /\ ~cancelled[p]
    /\ statusAccepted(op[p], st)
    /\ readChecked(op[p])
    /\ pc' = [pc EXCEPT ![p] = "idle"]
    /\ result' = [result EXCEPT ![p] = ReadError]
    /\ UNCHANGED <<clientVars, op, useRefresh, ferr, resReqs, tokReqs>>
    /\ UNCHANGED <<enrichVars, scanVars, mapVars, cancelled, reqVars, decVars, pathVars>>
    /\ UNCHANGED tokResp

\* The resource response has an accepted status and the given body: the
\* operation decodes it and returns.
ResourceAnswered(p, st, body) ==
    /\ pc[p] = "resource"
    /\ ~cancelled[p]
    /\ statusAccepted(op[p], st)
    /\ body \in ResponseBodies(op[p])
    /\ pc' = [pc EXCEPT ![p] = "idle"]
    /\ result' = [result EXCEPT ![p] = responseResult(op[p], st, body)]
    /\ UNCHANGED <<clientVars, op, useRefresh, ferr, resReqs, tokReqs>>
    /\ UNCHANGED <<enrichVars, scanVars, mapVars, cancelled, reqVars, decVars, pathVars>>
    /\ UNCHANGED tokResp

\* Time passes.
Tick(d) ==
    /\ now + d <= MaxTime
    /\ now' = now + d
    /\ UNCHANGED <<token, tokenExp, refresh, nextOAuthAttempt, mu, callerVars>>
    /\ UNCHANGED <<enrichVars, scanVars, mapVars, cancelled, reqVars, decVars, pathVars>>
    /\ UNCHANGED tokResp

(* ---------------------- concurrent fetchToken calls ------------------- *)

\* A goroutine calls fetchToken(ctx, ur).
CallFetch(p, ur) ==
    /\ pc[p] = "idle"
    /\ pc' = [pc EXCEPT ![p] = "fetchToken"]
    /\ useRefresh' = [useRefresh EXCEPT ![p] = ur]
    /\ ferr' = [ferr EXCEPT ![p] = Nil]
    /\ tokReqs' = [tokReqs EXCEPT ![p] = 0]
    /\ UNCHANGED <<clientVars, op, result, resReqs>>
    /\ UNCHANGED <<enrichVars, scanVars, mapVars, reqVars, decVars, pathVars>>
    /\ cancelled' = [cancelled EXCEPT ![p] = FALSE]
    /\ UNCHANGED tokResp

\* The goroutine has used what fetchToken returned.
FetchDone(p) ==
    /\ pc[p] = "fetched"
    /\ pc' = [pc EXCEPT ![p] = "idle"]
    /\ useRefresh' = [useRefresh EXCEPT ![p] = FALSE]
    /\ ferr' = [ferr EXCEPT ![p] = Nil]
    /\ tokReqs' = [tokReqs EXCEPT ![p] = 0]
    /\ UNCHANGED <<clientVars, op, result, resReqs>>
    /\ UNCHANGED <<enrichVars, scanVars, mapVars, cancelled, reqVars, decVars, pathVars>>
    /\ tokResp' = NoTokResp

(* ----------------------- ListLoads and enrichment --------------------- *)

\* Mutant of hasLane: a lane object counts, whatever it holds.
hasLaneNonNil(s) == ~s.lane.nil

\* s.Lane != nil && (s.Lane.Start != "" || s.Lane.End != ""): the record
\* already has a lane and needs no detail fetch.
hasLane(s) == ~s.lane.nil /\ (s.lane.start # "" \/ s.lane.end # "")

\* Lines 103-109: the records of page pg that need a detail fetch.
pendingOf(pg) == Cardinality({i \in 1..Len(pg) : ~hasLane(pg[i])})

\* Lines 84-94: ListShipmentsPageWithQuery failed; a RateLimitedError becomes
\* a 429 with a Retry-After header when its duration is positive, any other
\* error a 502.
ListFails(err) ==
    /\ hpc = "list"
    /\ hpc' = "done"
    /\ httpStatus' = IF err.kind = "RateLimitedError"
                     THEN StatusTooManyRequests ELSE StatusBadGateway
    /\ retryAfterHeader' = IF err.kind = "RateLimitedError" /\ err.retryAfter > 0
                           THEN err.retryAfter ELSE 0
    /\ UNCHANGED <<shipments, enriched, pending, sem, spawnIdx, results,
                   collected, worker>>
    /\ UNCHANGED <<clientVars, callerVars, scanVars, mapVars, tokResp, cancelled, reqVars, decVars, pathVars>>

\* Lines 83 and 95-110: the page is copied and the records to enrich counted.
ListReturns(pg) ==
    /\ hpc = "list"
    /\ shipments' = pg
    /\ enriched' = pg
    /\ pending' = pendingOf(pg)
    /\ worker' = [i \in 1..Len(pg) |-> "none"]
    /\ hpc' = IF pendingOf(pg) > 0 THEN "spawn" ELSE "respond"
    /\ UNCHANGED <<sem, spawnIdx, results, collected, httpStatus, retryAfterHeader>>
    /\ UNCHANGED <<clientVars, callerVars, scanVars, mapVars, tokResp, cancelled, reqVars, decVars, pathVars>>

\* The spawning loop moves to the next index, or ends after the last one.
loopAdvances ==
    /\ spawnIdx' = spawnIdx + 1
    /\ hpc' = IF spawnIdx + 1 > Len(shipments) THEN "collect" ELSE "spawn"

\* Lines 112-115: a record that has a lane is passed over.
SkipRecord ==
    /\ hpc = "spawn"
    /\ hasLane(shipments[spawnIdx])
    /\ loopAdvances
    /\ UNCHANGED <<shipments, enriched, pending, sem, results, collected,
                   worker, httpStatus, retryAfterHeader>>
    /\ UNCHANGED <<clientVars, callerVars, scanVars, mapVars, tokResp, cancelled, reqVars, decVars, pathVars>>

\* Mutant of semHasRoom: the send on the semaphore channel never blocks.
semNeverFull == TRUE

\* Line 116: sem <- struct{}{} completes only when the channel, of capacity
\* 6, is not full.
semHasRoom == sem < SemCap

\* Lines 116-127: a semaphore slot is taken and the goroutine started.
SpawnWorker ==
    /\ hpc = "spawn"
    /\ ~hasLane(shipments[spawnIdx])
    /\ semHasRoom
    /\ sem' = sem + 1
    /\ worker' = [worker EXCEPT ![spawnIdx] = "fetching"]
    /\ loopAdvances
    /\ UNCHANGED <<shipments, enriched, pending, results, collected,
                   httpStatus, retryAfterHeader>>
    /\ UNCHANGED <<clientVars, callerVars, scanVars, mapVars, tokResp, cancelled, reqVars, decVars, pathVars>>

\* Mutant of resultsCap: the results channel is one slot short.
resultsCapShort == pending - 1

\* Line 111: make(chan idxShipment, pending), the capacity of the results
\* channel; a send completes only when the channel is not full.
resultsCap == pending

\* Lines 121 and 126: GetShipment returned the detail record, which is sent.
DetailFetched(i) ==
    /\ worker[i] = "fetching"
    /\ Len(results) < resultsCap
    /\ results' = Append(results, [idx |-> i, s |-> DetailOf(shipments[i].id)])
    /\ worker' = [worker EXCEPT ![i] = "sentDetail"]
    /\ UNCHANGED <<hpc, shipments, enriched, pending, sem, spawnIdx, collected,
                   httpStatus, retryAfterHeader>>
    /\ UNCHANGED <<clientVars, callerVars, scanVars, mapVars, tokResp, cancelled, reqVars, decVars, pathVars>>

\* Mutant of failureResult: the zero Shipment is sent for a failed fetch.
failureResultZero(i) == ZeroShipment

\* Line 123: what the goroutine of index i sends when its fetch failed.
failureResult(i) == shipments[i]

\* Lines 121-125: GetShipment failed (an error, or the 15 second timeout).
DetailFails(i) ==
    /\ worker[i] = "fetching"
    /\ Len(results) < resultsCap
    /\ results' = Append(results, [idx |-> i, s |-> failureResult(i)])
    /\ worker' = [worker EXCEPT ![i] = "sentSummary"]
    /\ UNCHANGED <<hpc, shipments, enriched, pending, sem, spawnIdx, collected,
                   httpStatus, retryAfterHeader>>
    /\ UNCHANGED <<clientVars, callerVars, scanVars, mapVars, tokResp, cancelled, reqVars, decVars, pathVars>>

\* Line 118: the goroutine returns and its deferred <-sem frees the slot.
WorkerExits(i) ==
    /\ worker[i] \in {"sentDetail", "sentSummary"}
    /\ sem' = sem - 1
    /\ worker' = [worker EXCEPT ![i] =
                     IF worker[i] = "sentDetail" THEN "exitedDetail" ELSE "exitedSummary"]
    /\ UNCHANGED <<hpc, shipments, enriched, pending, spawnIdx, results,
                   collected, httpStatus, retryAfterHeader>>
    /\ UNCHANGED <<clientVars, callerVars, scanVars, mapVars, tokResp, cancelled, reqVars, decVars, pathVars>>

\* Mutant of mergeIndex: results are stored in the order they arrive.
mergeIndexArrival(res, k) == k + 1

\* Line 131: the index of enriched a received result is stored at.
mergeIndex(res, k) == res.idx

\* Lines 129-132: the collecting loop receives one result and merges it.
Collect ==
    /\ hpc = "collect"
    /\ collected < pending
    /\ results # <<>>
    /\ enriched' = [enriched EXCEPT ![mergeIndex(Head(results), collected)] =
                       Head(results).s]
    /\ results' = Tail(results)
    /\ collected' = collected + 1
    /\ hpc' = IF collected + 1 = pending THEN "respond" ELSE "collect"
    /\ UNCHANGED <<shipments, pending, sem, spawnIdx, worker, httpStatus,
                   retryAfterHeader>>
    /\ UNCHANGED <<clientVars, callerVars, scanVars, mapVars, tokResp, cancelled, reqVars, decVars, pathVars>>

\* Lines 134-148: every element of enriched is mapped and written out.
Respond ==
    /\ hpc = "respond"
    /\ hpc' = "done"
    /\ httpStatus' = StatusOK
    /\ UNCHANGED <<shipments, enriched, pending, sem, spawnIdx, results,
                   collected, worker, retryAfterHeader>>
    /\ UNCHANGED <<clientVars, callerVars, scanVars, mapVars, tokResp, cancelled, reqVars, decVars, pathVars>>

(* ------------------ list pages and the external-id scan --------------- *)

\* Mutant of firstMatch: the last matching record.
lastMatch(recs, ext) ==
    LET hits == {i \in 1..Len(recs) : recs[i].customID = ext}
    IN  IF hits = {} THEN 0 ELSE CHOOSE i \in hits : \A j \in hits : j <= i

\* FindShipmentByExternalID, lines 466-470: the index of the first record
\* whose CustomID equals ext, 0 when there is none.
firstMatch(recs, ext) ==
    LET hits == {i \in 1..Len(recs) : recs[i].customID = ext}
    IN  IF hits = {} THEN 0 ELSE CHOOSE i \in hits : \A j \in hits : i <= j

\* Mutant of findResult: without a match the zero shipment is returned with
\* a nil error.
findResultNoError(recs, ext) ==
    IF firstMatch(recs, ext) = 0
    THEN [err |-> Nil, ok |-> FALSE, s |-> Record(0, "")]
    ELSE [err |-> Nil, ok |-> TRUE, s |-> recs[firstMatch(recs, ext)]]

\* FindShipmentByExternalID, lines 462-471, once ListShipments returned recs.
findResult(recs, ext) ==
    IF firstMatch(recs, ext) = 0
    THEN [err |-> NotFoundError, ok |-> FALSE, s |-> Record(0, "")]
    ELSE [err |-> Nil, ok |-> TRUE, s |-> recs[firstMatch(recs, ext)]]

\* Lines 462-465: ListShipments failed and so does the lookup.
findFailure(err) == [err |-> err, ok |-> FALSE, s |-> Record(0, "")]

\* Mutant of incrOf: totalRecordsInPage alone, without the item count.
incrOfTotalOnly(m, its) == m.totalRecordsInPage

\* ListShipments, lines 349-356: the step start advances by.
incrOf(m, its) ==
    IF m.totalRecordsInPage <= 0 THEN Len(its) ELSE m.totalRecordsInPage

\* Mutant of pageErrorEndsScan: a failed page counts as an empty last page.
pageErrorSkipped(err) == FALSE

\* ListShipments, lines 341-343: an error of ListShipmentsPage is returned.
pageErrorEndsScan(err) == err # Nil

\* ListShipments, lines 345-355: the page does not break out of the loop, and
\* start advances.
scanAdvances(m, its) ==
    /\ m.moreAvailable
    /\ incrOf(m, its) > 0

\* ListShipments, lines 345-355 and 339: the loop goes on to another page.
scanContinues(m, its, pg) ==
    /\ scanAdvances(m, its)
    /\ pg + 1 < maxPages

\* FindShipmentByExternalID is called and ListShipments starts its loop.
FindCall(d, k, ext) ==
    /\ spc = "idle"
    /\ spc' = "loop"
    /\ listOp' = "ListShipmentsPage"
    /\ dataset' = d
    /\ served' = k
    /\ wanted' = ext
    /\ start' = 0
    /\ page' = 0
    /\ all' = <<>>
    /\ pageReqs' = <<>>
    /\ lastBody' = NoBody
    /\ items' = <<>>
    /\ meta' = ZeroPagination
    /\ lerr' = Nil
    /\ found' = findFailure(NoResult)
    /\ UNCHANGED <<clientVars, callerVars, enrichVars, mapVars, tokResp, cancelled, reqVars, decVars, pathVars>>

\* Line 340: ListShipmentsPage(ctx, start, pageSize) sends its request.
PageRequest ==
    /\ spc = "loop"
    /\ page < maxPages
    /\ spc' = "page"
    /\ pageReqs' = Append(pageReqs, start)
    /\ UNCHANGED <<listOp, dataset, served, wanted, start, page, all, lastBody,
                   items, meta, lerr, found>>
    /\ UNCHANGED <<clientVars, callerVars, enrichVars, mapVars, tokResp, cancelled, reqVars, decVars, pathVars>>

\* ListShipmentsPage returned r: lines 341-358 of ListShipments and, when
\* the loop ends, lines 462-471 of FindShipmentByExternalID.
pageReturns(r) ==
    /\ items' = r.items
    /\ meta' = r.meta
    /\ lerr' = r.err
    /\ IF pageErrorEndsScan(r.err)
       THEN /\ spc' = "idle"
            /\ found' = findFailure(r.err)
            /\ UNCHANGED <<start, page, all>>
       ELSE /\ all' = all \o r.items
            /\ IF scanAdvances(r.meta, r.items)
               THEN /\ start' = start + incrOf(r.meta, r.items)
                    /\ page' = page + 1
               ELSE UNCHANGED <<start, page>>
            /\ IF scanContinues(r.meta, r.items, page)
               THEN /\ spc' = "loop"
                    /\ UNCHANGED found
               ELSE /\ spc' = "idle"
                    /\ found' = findResult(all \o r.items, wanted)
    /\ UNCHANGED <<listOp, dataset, served, wanted, pageReqs>>
    /\ UNCHANGED <<clientVars, callerVars, enrichVars, mapVars, tokResp, cancelled, reqVars, decVars, pathVars>>

\* ListShipmentsPage fails: the token, the transport or the status.
PageFails(err) ==
    /\ spc = "page"
    /\ lastBody' = NoBody
    /\ pageReturns([err |-> err, items |-> <<>>, meta |-> ZeroPagination])

\* ListShipmentsPage gets a 200 with the given body.
PageAnswered(body) ==
    /\ spc = "page"
    /\ lastBody' = body
    /\ pageReturns(parseListBody(body, start))

\* ListShipmentsPageWithQuery, lines 480-486 and 514-547: called with the
\* start parameter st (absent: "0" is set), it gets a 200 with the body.
QueryAnswered(hasStart, st, body) ==
    /\ spc = "idle"
    /\ listOp' = "ListShipmentsPageWithQuery"
    /\ lastBody' = body
    /\ LET r == parseListBody(body, atoiOrZero(IF hasStart THEN st ELSE <<"0">>))
       IN  /\ items' = r.items
           /\ meta' = r.meta
           /\ lerr' = r.err
    /\ dataset' = <<>>
    /\ served' = 1
    /\ wanted' = ""
    /\ start' = 0
    /\ page' = 0
    /\ all' = <<>>
    /\ pageReqs' = <<>>
    /\ found' = findFailure(NoResult)
    /\ UNCHANGED spc
    /\ UNCHANGED <<clientVars, callerVars, enrichVars, mapVars, tokResp, cancelled, reqVars, decVars, pathVars>>

(* ------------------------------- mapper -------------------------------- *)

\* load.Pickup.ReadyTime != nil && !load.Pickup.ReadyTime.IsZero()
timeGiven(tm) == ~tm.nil /\ tm.t # 0

\* ToTurvoShipment, lines 25-30: the pickup time, or the current time.
pickupAtOf(l, clock) == IF timeGiven(l.pickup.time) THEN l.pickup.time.t ELSE clock

\* Mutant of deliveryAtOf: the default is a day after the current time.
deliveryAtFromNow(l, clock) ==
    IF timeGiven(l.consignee.time) THEN l.consignee.time.t
    ELSE clock + DeliveryDefault

\* ToTurvoShipment, lines 31-36: the delivery time, or a day after pickup.
deliveryAtOf(l, clock) ==
    IF timeGiven(l.consignee.time) THEN l.consignee.time.t
    ELSE pickupAtOf(l, clock) + DeliveryDefault

\* Mutant of laneOf: the state is left out of the lane.
laneOfCityOnly(st) == TrimSpace(st.city)

\* ToTurvoShipment, lines 47-54: "city, state" of a stop, trimmed.
laneOf(st) == TrimSpace(JoinCommaSpace(TrimSpace(st.city), TrimSpace(st.state)))

\* ToTurvoShipment, lines 41-44: the customer id of the customer order.
custIDOf(l) == IF l.customerTurvoID > 0 THEN l.customerTurvoID ELSE TurvoDefaultCustomerID

\* ToTurvoShipment, called at time clock.
ToTurvoShipment(l, clock) ==
    [customID |-> l.externalTMSLoadID,
     ltlShipment |-> FALSE,
     startDate |-> pickupAtOf(l, clock),
     endDate |-> deliveryAtOf(l, clock),
     timeZone |-> "UTC",
     customerOrder |-> <<[customerNil |-> FALSE, id |-> custIDOf(l), name |-> ""]>>,
     lane |-> Lane(laneOf(l.pickup), laneOf(l.consignee)),
     skipDistanceCalculation |-> TRUE,
     status |-> NoStatus,
     equipment |-> <<>>, services |-> <<>>, margin |-> NilMargin]

\* "Unknown"
Unknown == <<"U", "n", "k", "n", "o", "w", "n">>

\* Mutant of statusOf: the code value is not trimmed.
statusOfUntrimmed(st) ==
    LET v == IF st.present /\ st.decodes THEN st.code ELSE <<>>
    IN  IF v = <<>> THEN Unknown ELSE v

\* FromTurvoShipment, lines 80-94: the trimmed status code value, "Unknown"
\* when the status is absent, does not decode or has no code value.
statusOf(st) ==
    LET v == IF st.present /\ st.decodes THEN TrimSpace(st.code) ELSE <<>>
    IN  IF v = <<>> THEN Unknown ELSE v

\* FromTurvoShipment, lines 96-99: the name of the first order's customer.
customerNameOf(s) ==
    IF Len(s.customerOrder) > 0 /\ ~s.customerOrder[1].customerNil
    THEN s.customerOrder[1].name ELSE ""

\* FromTurvoShipment, lines 102-108: the display fields of the load are
\* not assigned and stay zero, whatever the shipment carries.
displayOf(s) == ZeroDisplay

\* FromTurvoShipment, lines 101-108: the load built from a shipment; Pickup
\* and Consignee are not assigned and stay zero.
FromTurvoShipment(s) ==
    [externalTMSLoadID |-> s.customID,
     customerTurvoID |-> 0,
     status |-> statusOf(s.status),
     customerName |-> customerNameOf(s),
     pickup |-> ZeroStop,
     consignee |-> ZeroStop,
     display |-> displayOf(s)]

\* CreateLoad, lines 153-163: the posted load is converted.
ToWire(l) ==
    /\ mpc = "idle"
    /\ load' = l
    /\ wire' = ToTurvoShipment(l, now)
    /\ wireAt' = now
    /\ returned' = ZeroWire
    /\ back' = ZeroLoad
    /\ mpc' = "wire"
    /\ UNCHANGED <<clientVars, callerVars, enrichVars, scanVars, tokResp, cancelled, reqVars, decVars, pathVars>>

\* CreateLoad, lines 164 and 169: CreateShipment returned the shipment s it
\* decoded from the provider's response, and s is converted.
CreateShipmentReturns(s) ==
    /\ mpc = "wire"
    /\ returned' = s
    /\ back' = FromTurvoShipment(s)
    /\ mpc' = "back"
    /\ UNCHANGED <<load, wire, wireAt>>
    /\ UNCHANGED <<clientVars, callerVars, enrichVars, scanVars, tokResp, cancelled, reqVars, decVars, pathVars>>

\* CreateLoad, lines 164-168: CreateShipment returned an error; the handler
\* answers 502 and converts nothing.
CreateShipmentFails ==
    /\ mpc = "wire"
    /\ mpc' = "failed"
    /\ UNCHANGED <<load, wire, wireAt, returned, back>>
    /\ UNCHANGED <<clientVars, callerVars, enrichVars, scanVars, tokResp, cancelled, reqVars, decVars, pathVars>>

\* ListLoads, lines 134-138: a shipment of the merged page is converted.
FromProvider(s) ==
    /\ mpc = "idle"
    /\ load' = ZeroLoad
    /\ wire' = ZeroWire
    /\ wireAt' = 0
    /\ returned' = s
    /\ back' = FromTurvoShipment(s)
    /\ mpc' = "mapped"
    /\ UNCHANGED <<clientVars, callerVars, enrichVars, scanVars, tokResp, cancelled, reqVars, decVars, pathVars>>

\* CreateLoad, lines 166-167 and 170-172, and ListLoads, lines 139-148: the
\* handler has answered.
MapDone ==
    /\ mpc \in {"back", "failed", "mapped"}
    /\ mpc' = "idle"
    /\ load' = ZeroLoad
    /\ wire' = ZeroWire
    /\ wireAt' = 0
    /\ returned' = ZeroWire
    /\ back' = ZeroLoad
    /\ UNCHANGED <<clientVars, callerVars, enrichVars, scanVars, tokResp, cancelled, reqVars, decVars, pathVars>>

(* ------------------------- response decoding -------------------------- *)

\* GetShipment gets a 200 with the given body.
GetDecodes(body) ==
    /\ dpc = "idle"
    /\ dpc' = "get"
    /\ respBody' = body
    /\ got' = decodeGet(body)
    /\ created' = NoDecoded
    /\ UNCHANGED <<clientVars, callerVars, enrichVars, scanVars, mapVars, tokResp,
                   cancelled, reqVars, pathVars>>

\* CreateShipment gets a 200 with the same body.
CreateDecodes ==
    /\ dpc = "get"
    /\ dpc' = "both"
    /\ created' = decodeCreate(respBody)
    /\ UNCHANGED <<respBody, got>>
    /\ UNCHANGED <<clientVars, callerVars, enrichVars, scanVars, mapVars, tokResp,
                   cancelled, reqVars, pathVars>>

\* Both callers have used what they got.
DecodeDone ==
    /\ dpc = "both"
    /\ dpc' = "idle"
    /\ respBody' = NoResponse
    /\ got' = NoDecoded
    /\ created' = NoDecoded
    /\ UNCHANGED <<clientVars, callerVars, enrichVars, scanVars, mapVars, tokResp,
                   cancelled, reqVars, pathVars>>

(* --------------------------- request builder -------------------------- *)

\* newRequest, line 183: buildPath runs.
BuildPath(in) ==
    /\ ppc = "idle"
    /\ ppc' = "built"
    /\ pathIn' = in
    /\ built' = buildPath(in)
    /\ UNCHANGED <<clientVars, callerVars, enrichVars, scanVars, mapVars, tokResp,
                   cancelled, reqVars, decVars>>

\* newRequest, lines 185-199: the URL has gone into the request.
PathDone ==
    /\ ppc = "built"
    /\ ppc' = "idle"
    /\ pathIn' = NoPathIn
    /\ built' = NoBuilt
    /\ UNCHANGED <<clientVars, callerVars, enrichVars, scanVars, mapVars, tokResp,
                   cancelled, reqVars, decVars>>

(* --------------------------- specifications --------------------------- *)

\* The steps of fetchToken, for the callers in set S, with token responses
\* carrying an access token of A, a refresh token of R, a Retry-After header
\* of H and an expires_in of E.
FetchTokenStep(S, A, R, H, E) ==
    \/ \E p \in S : FetchReuse(p)
    \/ \E p \in S : FetchCooldown(p)
    \/ \E p \in S : FetchIssue(p)
    \/ \E p \in S : TokenTransportError(p)
    \/ \E p \in S, hdr \in H : TokenRateLimited(p, hdr)
    \/ \E p \in S, st \in TokenErrorStatuses : TokenRejected(p, st)
    \/ \E p \in S, d \in BOOLEAN, a \in A : TokenUnusable(p, d, a)
    \/ \E p \in S, a \in A, r \in R, e \in E : TokenStored(p, a, r, e)

\* One goroutine runs resource operations, one after the other.
Next ==
    \/ \E p \in OpCallers, o \in Ops : Call(p, o)
    \/ FetchTokenStep(OpCallers, AccessTokens, RefreshTokens,
                      RetryAfterHeaders, ExpiresInValues)
    \/ \E p \in OpCallers : NewRequestSends(p)
    \/ \E p \in OpCallers : NewRequestFails(p)
    \/ \E p \in OpCallers : Cancel(p)
    \/ \E p \in OpCallers : TokenCanceled(p)
    \/ \E p \in OpCallers : ResourceCanceled(p)
    \/ \E p \in OpCallers : ResourceTransportError(p)
    \/ \E p \in OpCallers : ResourceUnauthorized(p)
    \/ \E p \in OpCallers : RetryRecurses(p)
    \/ \E p \in OpCallers : RetryGivesUp(p)
    \/ \E p \in OpCallers, st \in ResourceStatuses : ResourceRejected(p, st)
    \/ \E p \in OpCallers, st \in ResourceStatuses : ResourceReadFails(p, st)
    \/ \E p \in OpCallers, st \in ResourceStatuses :
          \E body \in ResponseBodies(op[p]) : ResourceAnswered(p, st, body)
    \/ \E d \in TickSteps : Tick(d)

Spec == Init /\ [][Next]_vars

\* NumCallers goroutines call fetchToken concurrently.
NextConc ==
    \/ \E p \in Callers, ur \in BOOLEAN : CallFetch(p, ur)
    \/ FetchTokenStep(Callers, ConcAccessTokens, ConcRefreshTokens,
                      ConcRetryAfterHeaders, ConcExpiresInValues)
    \/ \E p \in Callers : FetchDone(p)
    \/ \E d \in TickSteps : Tick(d)

SpecConc == Init /\ [][NextConc]_vars

\* The goroutine that only calls fetchToken while another one runs a
\* resource operation (SpecRace).
Refreshers == {2}

\* One goroutine runs GetShipment while the others call fetchToken, as the
\* newRequest and the 401 branch of their own requests do.
NextRace ==
    \/ \E p \in OpCallers : Call(p, "GetShipment")
    \/ \E p \in Refreshers, ur \in BOOLEAN : CallFetch(p, ur)
    \/ FetchTokenStep(OpCallers \cup Refreshers, ConcAccessTokens, ConcRefreshTokens,
                      ConcRetryAfterHeaders, ConcExpiresInValues)
    \/ \E p \in Refreshers : FetchDone(p)
    \/ \E p \in OpCallers : NewRequestSends(p)
    \/ \E p \in OpCallers : NewRequestFails(p)
    \/ \E p \in OpCallers : ResourceUnauthorized(p)
    \/ \E p \in OpCallers : RetryRecurses(p)
    \/ \E p \in OpCallers : RetryGivesUp(p)
    \/ \E p \in OpCallers, st \in ResourceStatuses : ResourceRejected(p, st)
    \/ \E p \in OpCallers, st \in ResourceStatuses : ResourceReadFails(p, st)
    \/ \E p \in OpCallers, st \in ResourceStatuses :
          \E body \in ResponseBodies(op[p]) : ResourceAnswered(p, st, body)
    \/ \E d \in TickSteps : Tick(d)

SpecRace == Init /\ [][NextRace]_vars

\* The ListLoads handler serves one request.
NextEnrich ==
    \/ \E err \in ListErrors : ListFails(err)
    \/ \E pg \in Pages : ListReturns(pg)
    \/ SkipRecord
    \/ SpawnWorker
    \/ \E i \in 1..Len(shipments) : DetailFetched(i)
    \/ \E i \in 1..Len(shipments) : DetailFails(i)
    \/ \E i \in 1..Len(shipments) : WorkerExits(i)
    \/ Collect
    \/ Respond

SpecEnrich == Init /\ [][NextEnrich]_vars

\* The provider answers the detail request of index i while at most
\* MaxOvertake requests of lower indices are still unanswered.
AnswersInWindow(i) ==
    Cardinality({j \in 1..(i - 1) : worker[j] = "fetching"}) <= MaxOvertake

\* The ListLoads handler serves one request whose page has more records to
\* enrich than the semaphore has slots.
NextSem ==
    \/ \E err \in ListErrors : ListFails(err)
    \/ \E pg \in SemPages : ListReturns(pg)
    \/ SpawnWorker
    \/ \E i \in 1..Len(shipments) : AnswersInWindow(i) /\ DetailFetched(i)
    \/ \E i \in SemFailing \cap (1..Len(shipments)) :
          AnswersInWindow(i) /\ DetailFails(i)
    \/ \E i \in 1..Len(shipments) : WorkerExits(i)
    \/ Collect
    \/ Respond

SpecSem == Init /\ [][NextSem]_vars

\* The provider answers the detail request of index i: in any order on a
\* short page, with at most MaxFanOutOvertake requests of lower indices
\* still unanswered on a page longer than the semaphore.
AnswersDetail(i) ==
    \/ Len(shipments) <= MaxPage
    \/ Cardinality({j \in 1..(i - 1) : worker[j] = "fetching"}) <= MaxFanOutOvertake

\* The short pages the fan-out is run on to its end: each record without
\* a lane or with a lane start.
FanOutPages ==
    UNION {{[i \in 1..n |-> Summary(i, f[i])] :
               f \in [1..n -> {NilLane, Lane("Chicago, IL", "")}]} :
           n \in 0..MaxPage}

\* The indices whose detail fetch may fail: any of a short page.
FailingDetails ==
    IF Len(shipments) <= MaxPage THEN 1..Len(shipments) ELSE {}

\* The ListLoads handler serves one request, on a short page or on one
\* with more records to enrich than the semaphore has slots.
NextFanOut ==
    \/ \E err \in ListErrors : ListFails(err)
    \/ \E pg \in FanOutPages \cup SemPages : ListReturns(pg)
    \/ SkipRecord
    \/ SpawnWorker
    \/ \E i \in 1..Len(shipments) : AnswersDetail(i) /\ DetailFetched(i)
    \/ \E i \in FailingDetails : AnswersDetail(i) /\ DetailFails(i)
    \/ \E i \in 1..Len(shipments) : WorkerExits(i)
    \/ Collect
    \/ Respond

\* The steps of the handler's goroutine once the page is there, and those
\* of the workers.
HandlerStep == SkipRecord \/ SpawnWorker \/ Collect \/ Respond
WorkerStep ==
    \/ \E i \in 1..Len(shipments) : AnswersDetail(i) /\ DetailFetched(i)
    \/ \E i \in FailingDetails : AnswersDetail(i) /\ DetailFails(i)
    \/ \E i \in 1..Len(shipments) : WorkerExits(i)

\* The Go scheduler runs a goroutine that can take a step, and every list
\* and GetShipment call returns (the http.Client has a timeout and the
\* worker's context a deadline): the list call returns, the handler takes
\* a step it can take, and some worker takes a step it can take.
SpecFanOut ==
    /\ Init /\ [][NextFanOut]_vars
    /\ WF_vars(hpc = "list" /\ NextFanOut)
    /\ WF_vars(HandlerStep)
    /\ WF_vars(WorkerStep)

\* A caller looks shipments up by external id, or lists one page with a
\* query.
NextScan ==
    \/ \E d \in Datasets, k \in ServedPerPage, ext \in ExternalIDs : FindCall(d, k, ext)
    \/ PageRequest
    \/ \E err \in ListErrors : PageFails(err)
    \/ \E body \in PageBodies(dataset, served, start) : PageAnswered(body)
    \/ \E hs \in BOOLEAN, st \in StartParams, body \in QueryBodies :
          QueryAnswered(hs, st, body)

SpecScan == Init /\ [][NextScan]_vars

\* Loads are converted to shipments and back while time passes.
NextMap ==
    \/ \E l \in Loads : ToWire(l)
    \/ \E s \in CreatedShipments(wire) : CreateShipmentReturns(s)
    \/ CreateShipmentFails
    \/ \E s \in ProviderShipments : FromProvider(s)
    \/ MapDone
    \/ \E d \in TickSteps : Tick(d)

SpecMap == Init /\ [][NextMap]_vars

\* GetShipment and CreateShipment decode the same response bodies.
NextDecode ==
    \/ \E body \in ShipmentBodies : GetDecodes(body)
    \/ CreateDecodes
    \/ DecodeDone

SpecDecode == Init /\ [][NextDecode]_vars

\* buildPath runs on every configuration, with and without a token.
NextPath ==
    \/ \E b \in BaseURLs, cp \in ConfigPrefixes, t \in PathTokens,
          rp \in ResourcePaths : BuildPath(PathIn(b, cp, t, rp))
    \/ PathDone

SpecPath == Init /\ [][NextPath]_vars

(* ------------------------------ claims -------------------------------- *)

\* The token fields of the client.
tokenFields == <<token, refresh, tokenExp, nextOAuthAttempt>>

\* Caller p's fetchToken call takes its first step past the mutex.
FetchTokenActs(p) == pc[p] = "fetchToken" /\ pc'[p] # "fetchToken"

\* C1: a single call of a resource operation issues at most two resource
\* requests: a 401 is retried once and a second 401 ends the call.
C1_AtMostTwoResourceRequests == \A p \in Callers : resReqs[p] <= 2

\* C2: when a call got a 401 and then succeeded on the retry, exactly one
\* token request was issued between the two resource requests.
C2_OneTokenRequestBeforeRetry ==
    \A p \in Callers :
        (pc[p] = "idle" /\ result[p] = Nil /\ resReqs[p] = 2) => tokReqs[p] = 1

\* C3: no token request is in flight while now < nextOAuthAttempt, and a
\* fetchToken call made inside the cooldown without a reusable token returns
\* RateLimitedError with the remaining time, issues no request and leaves
\* the token fields unchanged.
C3_CooldownFailsFast ==
    /\ [](\A p \in Callers : pc[p] = "oauth" => now >= nextOAuthAttempt)
    /\ [][\A p \in Callers :
            (/\ FetchTokenActs(p)
             /\ now < nextOAuthAttempt
             /\ ~(token # <<>> /\ tokenExp - now > 60))
            => /\ pc'[p] = "fetched"
               /\ ferr'[p] = RateLimitedError(nextOAuthAttempt - now)
               /\ tokReqs'[p] = tokReqs[p]
               /\ UNCHANGED tokenFields]_vars

\* C3 witness: a call has failed fast with 30 seconds of cooldown left.
C3_Witness ==
    \E p \in Callers :
        /\ pc[p] = "fetched"
        /\ tokReqs[p] = 0
        /\ ferr[p] = RateLimitedError(30)
        /\ nextOAuthAttempt - now = 30

\* C4: with a stored token that has more than 60 seconds left,
\* fetchToken(ctx, false) returns nil, issues no request and leaves the
\* token fields unchanged.
C4_ValidTokenReused ==
    [][\A p \in Callers :
          (/\ FetchTokenActs(p)
           /\ ~useRefresh[p]
           /\ token # <<>>
           /\ tokenExp - now > 60)
          => /\ pc'[p] = "fetched"
             /\ ferr'[p] = Nil
             /\ tokReqs'[p] = tokReqs[p]
             /\ UNCHANGED tokenFields]_vars

\* C4 witness: the first fetchToken of a call returned nil without a request.
C4_Witness ==
    \E p \in Callers :
        /\ pc[p] = "fetched"
        /\ ~useRefresh[p]
        /\ ferr[p] = Nil
        /\ resReqs[p] = 0
        /\ tokReqs[p] = 0
        /\ token # <<>>
        /\ tokenExp - now > 60

\* C5 as stated: outside a cooldown fetchToken issues a token request exactly
\* when the token is empty or has less than 60 seconds left, so that a token
\* with exactly 60 seconds left is reused.
C5_RenewBelowSixty ==
    [][\A p \in Callers :
          (FetchTokenActs(p) /\ ~(now < nextOAuthAttempt))
          => ((pc'[p] = "oauth") <=> (token = <<>> \/ tokenExp - now < 60))]_vars

\* C5 as amended: outside a cooldown fetchToken issues a token request
\* exactly when the token is empty or has 60 seconds or less left; only a
\* token with more than 60 seconds left is reused.
C5_RenewAtOrBelowSixty ==
    [][\A p \in Callers :
          (FetchTokenActs(p) /\ ~(now < nextOAuthAttempt))
          => ((pc'[p] = "oauth") <=> (token = <<>> \/ tokenExp - now <= 60))]_vars

\* C5 witness: a token request is in flight for a token with exactly 60
\* seconds left.
C5_Witness ==
    \E p \in Callers :
        pc[p] = "oauth" /\ token # <<>> /\ tokenExp - now = 60

\* C6: at most one token request is in flight at any time, and a token
\* request is issued only when none is in flight and the stored token has
\* 60 seconds or less left: the callers that waited for the mutex behind a
\* successful acquisition reuse its token.
C6_OneTokenRequestInFlight ==
    /\ [](Cardinality({p \in Callers : pc[p] = "oauth"}) <= 1)
    /\ [][\A p \in Callers :
            tokReqs'[p] > tokReqs[p]
            => /\ ~(token # <<>> /\ tokenExp - now > 60)
               /\ \A q \in Callers : pc[q] # "oauth"]_vars

\* C6 witness: every caller has its token at time 0, and one of them issued
\* the only token request.
C6_Witness ==
    /\ now = 0
    /\ \A p \in Callers : pc[p] = "fetched" /\ ferr[p] = Nil
    /\ Cardinality({p \in Callers : tokReqs[p] = 1}) = 1
    /\ Cardinality({p \in Callers : tokReqs[p] = 0}) = NumCallers - 1

\* C7: an operation that got a 429 from a resource endpoint returns a
\* RateLimitedError.
C7_Resource429IsRateLimited ==
    \A p \in Callers :
        (result[p].src = "resource" /\ result[p].status = 429)
        => result[p].kind = "RateLimitedError"

\* C8: a resource request is sent only after fetchToken(ctx, false) returned
\* nil, and when that call fails the operation returns its error unchanged,
\* a RateLimitedError with its retry-after included.
C8_TokenErrorEndsOperation ==
    \A p \in Callers :
        /\ pc[p] = "resource" => (~useRefresh[p] /\ ferr[p] = Nil)
        /\ (pc[p] = "idle" /\ ~useRefresh[p] /\ ferr[p] # Nil)
           => result[p] = ferr[p]

\* C8 witness: an operation returned a RateLimitedError before sending any
\* resource request.
C8_Witness ==
    \E p \in Callers :
        /\ pc[p] = "idle"
        /\ resReqs[p] = 0
        /\ result[p].kind = "RateLimitedError"
        /\ result[p].retryAfter > 0

\* The indices of the page.
Indices == 1..Len(shipments)

\* C9: whatever the order the detail fetches complete in, the merged page
\* has the length of the listed page, an index that needed no enrichment
\* holds its original record, and an enriched index holds the result of the
\* fetch for the record that was at that index.
C9_MergedByOriginalIndex ==
    (hpc = "done" /\ httpStatus = 200) =>
        /\ Len(enriched) = Len(shipments)
        /\ \A i \in Indices :
              /\ hasLane(shipments[i]) => enriched[i] = shipments[i]
              /\ ~hasLane(shipments[i]) => enriched[i].id = shipments[i].id
              /\ worker[i] \in {"sentDetail", "exitedDetail"}
                    => enriched[i] = DetailOf(shipments[i].id)

\* C9 witness: the detail of a later index has been merged while the result
\* of an earlier index is still the next one to be received.
C9_Witness ==
    /\ hpc = "collect"
    /\ results # <<>>
    /\ \E j \in Indices :
          /\ Head(results).idx < j
          /\ enriched[j] = DetailOf(shipments[j].id)

\* C10: when the detail fetch of some index fails, that index keeps its
\* summary record, every index whose fetch succeeded holds its detail, and
\* the handler answers 200 with as many items as the page had.
C10_FailedFetchKeepsSummary ==
    (hpc = "done" /\ \E i \in Indices : worker[i] \in {"sentSummary", "exitedSummary"}) =>
        /\ httpStatus = 200
        /\ Len(enriched) = Len(shipments)
        /\ \A i \in Indices :
              /\ worker[i] \in {"sentSummary", "exitedSummary"}
                    => enriched[i] = shipments[i]
              /\ worker[i] \in {"sentDetail", "exitedDetail"}
                    => enriched[i] = DetailOf(shipments[i].id)

\* C10 witness: the handler has answered a page on which one fetch failed
\* and another succeeded.
C10_Witness ==
    /\ hpc = "done"
    /\ \E i, j \in Indices :
          /\ worker[i] \in {"sentSummary", "exitedSummary"}
          /\ worker[j] \in {"sentDetail", "exitedDetail"}

\* The detail fetches in flight: goroutines that hold a semaphore slot and
\* have not yet got their GetShipment result.
InFlight == {i \in Indices : worker[i] = "fetching"}

\* C11: during the enrichment of a page at most 6 detail fetches are in
\* flight at any instant, and at most 6 goroutines hold a semaphore slot.
C11_AtMostSixInFlight ==
    /\ Cardinality(InFlight) <= 6
    /\ sem <= 6
    /\ Cardinality({i \in Indices : worker[i] \in {"fetching", "sentDetail", "sentSummary"}}) = sem

\* C11 witness: six fetches are in flight and the spawning loop waits with a
\* seventh record to enrich.
C11_Witness ==
    /\ hpc = "spawn"
    /\ Cardinality(InFlight) = 6
    /\ ~hasLane(shipments[spawnIdx])

\* C12: a list response in the enveloped shape yields the envelope's
\* shipments and its pagination unchanged, and a bare-array response yields
\* the array with pagination whose moreAvailable is false and whose
\* totalRecordsInPage is the array's length, for ListShipmentsPage and for
\* ListShipmentsPageWithQuery alike.
C12_EnvelopeOrSynthesizedPagination ==
    /\ (lastBody.kind = "envelope" /\ lastBody.hasShipments)
          => /\ lerr = Nil
             /\ items = lastBody.shipments
             /\ meta = lastBody.pagination
    /\ lastBody.kind = "array"
          => /\ lerr = Nil
             /\ items = lastBody.shipments
             /\ ~meta.moreAvailable
             /\ meta.totalRecordsInPage = Len(lastBody.shipments)

\* C12 witness: ListShipmentsPage returned the pagination of an envelope
\* that reports more records available under a cursor key.
C12_Witness ==
    /\ listOp = "ListShipmentsPage"
    /\ lastBody.kind = "envelope"
    /\ Len(items) = 2
    /\ meta.moreAvailable
    /\ meta.start = 2
    /\ meta.lastObjectKey = "key"

\* A FindShipmentByExternalID call has returned.
FindReturned == spc = "idle" /\ listOp = "ListShipmentsPage" /\ found.err # NoResult

\* C13: the lookup fails on the first page whose list call returns an
\* error: it returns that error and no shipment, whatever earlier pages
\* held, no page is requested after the error, and no page is requested
\* twice.
C13_FirstPageErrorFailsLookup ==
    /\ [](FindReturned /\ lerr # Nil => found = [err |-> lerr, ok |-> FALSE, s |-> Record(0, "")])
    /\ [](\A i, j \in 1..Len(pageReqs) : i < j => pageReqs[i] # pageReqs[j])
    /\ [][(spc = "page" /\ lerr' # Nil)
            => (spc' = "idle" /\ found'.err = lerr' /\ pageReqs' = pageReqs)]_vars

\* C13 witness: the lookup failed on its third page although an earlier
\* page held a record with the external id looked up.
C13_Witness ==
    /\ FindReturned
    /\ lerr # Nil
    /\ ~found.ok
    /\ Len(pageReqs) = 3
    /\ \E i \in 1..Len(all) : all[i].customID = wanted

\* The starts requested are in cursor order: 0 first, then growing.
CursorOrder ==
    /\ pageReqs # <<>> => pageReqs[1] = 0
    /\ \A i \in 1..(Len(pageReqs) - 1) : pageReqs[i] < pageReqs[i + 1]
    /\ Len(pageReqs) <= 100

\* The lookup returned the first of the scanned records whose CustomID is
\* the external id, the scanned records being the provider's first ones in
\* their order, or the not-found error when none of them has it.
FirstScannedMatch ==
    /\ Len(all) <= Len(dataset)
    /\ all = SubSeq(dataset, 1, Len(all))
    /\ LET hits == {i \in 1..Len(all) : dataset[i].customID = wanted}
       IN  IF hits = {} THEN found.err = NotFoundError /\ ~found.ok
           ELSE /\ found.err = Nil
                /\ found.ok
                /\ \E i \in hits : found.s = dataset[i] /\ \A j \in hits : i <= j

\* C14 as stated: a lookup whose pages all succeeded requested them in
\* cursor order, stopped only at a page with moreAvailable false or at the
\* ceiling of 100 pages, and returned the first exact match in page order,
\* or a not-found error.
C14_ScanUntilNoMoreOrCeiling ==
    (FindReturned /\ lerr = Nil) =>
        /\ CursorOrder
        /\ ~meta.moreAvailable \/ Len(pageReqs) = 100
        /\ FirstScannedMatch

\* C14 as amended: the scan also stops at a page that reports more records
\* available but carries no record and no positive totalRecordsInPage.
C14_ScanUntilNoMoreCeilingOrStall ==
    (FindReturned /\ lerr = Nil) =>
        /\ CursorOrder
        /\ \/ ~meta.moreAvailable
           \/ Len(pageReqs) = 100
           \/ (items = <<>> /\ meta.totalRecordsInPage <= 0)
        /\ FirstScannedMatch

\* C14 witness: the scan stopped at the ceiling with more records
\* available and returned the match of its hundredth page.
C14_Witness ==
    /\ FindReturned
    /\ Len(pageReqs) = 100
    /\ meta.moreAvailable
    /\ found.ok
    /\ found.s.id = 100
    /\ Len(dataset) = 101

\* The load's stops are Chicago/IL and Detroit/MI.
ChicagoToDetroit ==
    /\ load.pickup.city = Chicago /\ load.pickup.state = IL
    /\ load.consignee.city = Detroit /\ load.consignee.state = MI

\* C15: FromTurvoShipment applied to what ToTurvoShipment made of a load
\* from Chicago/IL to Detroit/MI yields a load whose pickup is Chicago, IL
\* and whose consignee is Detroit, MI.
C15_LaneRoundTrip ==
    (mpc = "back" /\ ChicagoToDetroit) =>
        /\ back.pickup.city = Chicago /\ back.pickup.state = IL
        /\ back.consignee.city = Detroit /\ back.consignee.state = MI

\* The lane string of a stop: its trimmed city, a comma and, when the
\* trimmed state is not empty, a space and the state.
CityCommaState(st) ==
    TrimSpace(st.city) \o <<",">> \o
        (IF TrimSpace(st.state) = <<>> THEN <<>> ELSE <<" ">> \o TrimSpace(st.state))

\* C16: the shipment ToTurvoShipment produces always carries a lane and has
\* SkipDistanceCalculation set; the lane's start and end are city and state
\* of pickup and of consignee joined by a comma, "Chicago, IL" and
\* "Detroit, MI" for a load from Chicago/IL to Detroit/MI.
C16_LaneJoinsCityAndState ==
    mpc \in {"wire", "back"} =>
        /\ ~wire.lane.nil
        /\ wire.skipDistanceCalculation
        /\ wire.lane.start = CityCommaState(load.pickup)
        /\ wire.lane.end = CityCommaState(load.consignee)
        /\ ChicagoToDetroit =>
              /\ wire.lane.start = <<"C", "h", "i", "c", "a", "g", "o", ",", " ", "I", "L">>
              /\ wire.lane.end = <<"D", "e", "t", "r", "o", "i", "t", ",", " ", "M", "I">>

\* C16 witness: a load from Chicago/IL to Detroit/MI has been converted.
C16_Witness ==
    /\ mpc = "wire"
    /\ ChicagoToDetroit
    /\ Len(wire.lane.start) = 11
    /\ Len(wire.lane.end) = 11

\* The load carries no time at the stop: a nil pointer or the zero time.
NoTime(tm) == tm.nil \/ tm.t = 0

\* C17: with no pickup-ready time startDate is the time of the conversion,
\* with no delivery time endDate is startDate plus 24 hours whether
\* startDate was given or defaulted, and a given time is passed through.
C17_DatesDefaulted ==
    mpc \in {"wire", "back"} =>
        /\ NoTime(load.pickup.time) => wire.startDate = wireAt
        /\ ~NoTime(load.pickup.time) => wire.startDate = load.pickup.time.t
        /\ NoTime(load.consignee.time) => wire.endDate = wire.startDate + 24 * 3600
        /\ ~NoTime(load.consignee.time) => wire.endDate = load.consignee.time.t

\* C17 witness: a load with a pickup time of 50 and no delivery time was
\* converted at time 30 and got an endDate a day after 50.
C17_Witness ==
    /\ mpc = "wire"
    /\ wireAt = 30
    /\ load.pickup.time = TimeAt(50)
    /\ load.consignee.time = NilTime
    /\ wire.startDate = 50
    /\ wire.endDate = 86450

\* Caller p's token request is answered with the given status.
TokenAnswered(p, st) ==
    pc[p] = "oauth" /\ pc'[p] = "fetched" /\ tokResp'.status = st

\* The whole seconds of time.Duration(v) * time.Second for the ints v that
\* the token endpoint sends here: v itself for a v of less than ten digits,
\* and -1 for v = 1<<63 - 1, whose product with 1e9 leaves, in 64 bits,
\* -1e9 nanoseconds.
secondsHeld(v) ==
    CASE ~v.wide -> v.val
      [] v.wide /\ v.val = MaxInt64 -> -1

\* C18 as stated: on a 429 from the token endpoint nextOAuthAttempt becomes
\* now plus the seconds of the Retry-After header when the header is
\* present, now plus 60 seconds otherwise; the call fails with a
\* RateLimitedError carrying that cooldown, and token, refresh token and
\* expiry stay as they were.
C18_CooldownFromHeaderIfPresent ==
    [][\A p \in Callers :
          TokenAnswered(p, 429) =>
              LET h == tokResp'.retryAfter
                  cooldown == IF h # <<>> THEN Atoi(h).val ELSE 60
              IN  /\ ~(h # <<>> /\ Atoi(h).wide)
                  /\ nextOAuthAttempt' = now + cooldown
                  /\ ferr'[p] = RateLimitedError(cooldown)
                  /\ UNCHANGED <<token, refresh, tokenExp>>]_vars

\* C18 as amended: the header's value is taken only when it is a positive
\* integer number of seconds that an int holds; an absent header, one that
\* is no integer, one beyond 64 bits and one that is zero or negative all
\* give 60 seconds. The value taken is a count of nanoseconds in 64 bits:
\* a header of 1<<63 - 1 gives a cooldown of -1 second.
C18_CooldownFromPositiveHeader ==
    [][\A p \in Callers :
          TokenAnswered(p, 429) =>
              LET h == tokResp'.retryAfter
                  cooldown == IF Atoi(h).ok /\ (Atoi(h).wide \/ Atoi(h).val >= 1)
                              THEN secondsHeld(Atoi(h))
                              ELSE 60
              IN  /\ nextOAuthAttempt' = now + cooldown
                  /\ ferr'[p] = RateLimitedError(cooldown)
                  /\ UNCHANGED <<token, refresh, tokenExp>>]_vars

\* C18 witness: a 429 with Retry-After: 0 has set a cooldown of 60 seconds.
C18_Witness ==
    \E p \in Callers :
        /\ pc[p] = "fetched"
        /\ tokResp.status = 429
        /\ tokResp.retryAfter = <<"0">>
        /\ nextOAuthAttempt = now + 60
        /\ ferr[p] = RateLimitedError(60)

\* Every character of s is white space.
Blank(s) == \A i \in 1..Len(s) : IsSpace(s[i])

\* t is s without the white space around it.
IsTrimOf(t, s) ==
    /\ t # <<>>
    /\ ~IsSpace(t[1]) /\ ~IsSpace(t[Len(t)])
    /\ \E i \in 0..Len(s) :
          /\ i + Len(t) <= Len(s)
          /\ SubSeq(s, i + 1, i + Len(t)) = t
          /\ Blank(SubSeq(s, 1, i))
          /\ Blank(SubSeq(s, i + Len(t) + 1, Len(s)))

\* The token fields hold what a token response asked to store, tok being
\* the access token stored and lifetime the seconds it is stored for.
StoredFrom(p, tok, lifetime) ==
    /\ token' = tok
    /\ refresh' = tokResp'.refresh
    /\ tokenExp' = now + lifetime
    /\ nextOAuthAttempt' = 0
    /\ ferr'[p] = Nil

\* fetchToken fails with an error of the token endpoint that is no
\* RateLimitedError, and stores nothing.
AuthFailure(p) ==
    /\ ferr'[p].kind = "errorString"
    /\ ferr'[p].src = "oauth"
    /\ UNCHANGED tokenFields

\* C19 as stated: on a 200 with a non-empty access_token the access token
\* and the refresh token are stored, the expiry is now plus expires_in (12
\* hours when expires_in is absent or not positive), the cooldown is cleared
\* and the call succeeds; with an empty access_token the call fails.
C19_TokenStoredAsSent ==
    [][\A p \in Callers :
          (TokenAnswered(p, 200) /\ tokResp'.decodes) =>
              LET e == tokResp'.expiresIn
              IN  IF tokResp'.access # <<>>
                  THEN /\ ~e.wide
                       /\ StoredFrom(p, tokResp'.access,
                                     IF e.val <= 0 THEN 12 * 3600 ELSE e.val)
                  ELSE AuthFailure(p)]_vars

\* C19 as amended: the access token is stored without the white space
\* around it, and an access_token of white space only counts as empty; the
\* lifetime is a count of nanoseconds in 64 bits, so that an expires_in of
\* 1<<63 - 1 stores an expiry of now minus 1 second.
C19_TokenStoredTrimmed ==
    [][\A p \in Callers :
          (TokenAnswered(p, 200) /\ tokResp'.decodes) =>
              LET e == tokResp'.expiresIn
              IN  IF ~Blank(tokResp'.access)
                  THEN /\ IsTrimOf(token', tokResp'.access)
                       /\ StoredFrom(p, token',
                                     IF ~e.wide /\ e.val <= 0
                                     THEN 12 * 3600
                                     ELSE secondsHeld(e))
                  ELSE AuthFailure(p)]_vars

\* C19 witness: a token sent with white space around it and without
\* expires_in is stored trimmed, for 12 hours, over an earlier cooldown.
C19_Witness ==
    \E p \in Callers :
        /\ pc[p] = "fetched"
        /\ ferr[p] = Nil
        /\ tokResp.access = <<"\f", "b", " ">>
        /\ tokResp.expiresIn = GoInt(0)
        /\ token = <<"b">>
        /\ tokenExp = now + 43200
        /\ now >= 60
        /\ nextOAuthAttempt = 0

\* C20: a call whose token request was in flight when its context was
\* cancelled, and was aborted, returns the context's error to its caller.
C20_CancellationErrorReturned ==
    \A p \in Callers :
        (/\ pc[p] = "idle"
         /\ result[p] # NoResult
         /\ cancelled[p]
         /\ ferr[p].kind = "canceled")
        => result[p].kind = "canceled"

\* C21: a token response that is neither a 200 nor a 429, and a 200 whose
\* body does not decode or whose access_token is empty, make fetchToken fail
\* with an error of the token endpoint that is no RateLimitedError, and
\* leave token, refresh token, expiry and cooldown as they were.
C21_FailedResponseStoresNothing ==
    [][\A p \in Callers :
          (/\ pc[p] = "oauth" /\ pc'[p] = "fetched"
           /\ \/ tokResp'.status \notin {0, 200, 429}
              \/ /\ tokResp'.status = 200
                 /\ ~tokResp'.decodes \/ tokResp'.access = <<>>)
          => /\ ferr'[p] # Nil
             /\ ferr'[p].kind \in {"errorString", "decode"}
             /\ ferr'[p].src = "oauth"
             /\ UNCHANGED tokenFields]_vars

\* C21 witness: a 200 with an empty access_token has failed a call made
\* while a token, a refresh token, an expiry and a cooldown were stored.
C21_Witness ==
    \E p \in Callers :
        /\ pc[p] = "fetched"
        /\ tokResp.status = 200 /\ tokResp.decodes /\ tokResp.access = <<>>
        /\ ferr[p] = EmptyTokenError
        /\ token # <<>> /\ refresh # "" /\ tokenExp > 0 /\ nextOAuthAttempt > 0

\* C22: a token request in flight carries the refresh_token grant, with the
\* stored refresh token, exactly when useRefresh is true and a refresh token
\* is stored; otherwise it carries the password grant with username,
\* password, scope and type.
C22_GrantFollowsUseRefresh ==
    \A p \in Callers :
        pc[p] = "oauth" =>
            IF useRefresh[p] /\ refresh # ""
            THEN /\ tokForm.grant = "refresh_token"
                 /\ tokForm.refreshToken = refresh
                 /\ tokForm.keys = {"grant_type", "refresh_token"}
            ELSE /\ tokForm.grant = "password"
                 /\ tokForm.keys = {"grant_type", "username", "password",
                                    "scope", "type"}

\* C22 witness: the forced refresh after a 401 posts the stored refresh
\* token.
C22_Witness ==
    \E p \in Callers :
        /\ pc[p] = "oauth"
        /\ useRefresh[p]
        /\ resReqs[p] = 1
        /\ refresh = "r"
        /\ tokForm.grant = "refresh_token"
        /\ tokForm.refreshToken = "r"

\* C23: token, refresh token, expiry and cooldown change only in a step of
\* fetchToken taken by the goroutine that holds the mutex; whenever the
\* token is assigned the expiry is assigned with it, to a time after the
\* clock; and a non-empty token always has its expiry set.
C23_TokenFieldsWrittenUnderMutex ==
    [][/\ tokenFields' # tokenFields =>
              \E p \in Callers : mu = p /\ pc[p] = "oauth" /\ pc'[p] = "fetched"
       /\ token' # token => tokenExp' > now
       /\ token' # <<>> => tokenExp' # 0]_vars

\* C23 witness: a goroutine has stored a token and its expiry while another
\* one waits for the mutex.
C23_Witness ==
    \E p, q \in Callers :
        /\ p # q
        /\ pc[p] = "fetched" /\ ferr[p] = Nil /\ tokResp.status = 200
        /\ token = <<"a">> /\ tokenExp = now + 90
        /\ pc[q] = "fetchToken"

\* C24: a goroutine reads c.token for its request only while it holds the
\* mutex itself, so that no read happens while another goroutine is inside
\* the critical section of fetchToken.
C24_TokenReadUnderMutex ==
    \A p \in Callers : bearerRead[p].done => bearerRead[p].holder = p

\* A state the claim excludes: a request was built from c.token while
\* another goroutine held the mutex with a token request in flight, and
\* that goroutine has since stored another token.
C24_ReadDuringRefresh ==
    \E p, q \in Callers :
        /\ p # q
        /\ pc[p] = "resource"
        /\ bearerRead[p].holder = q
        /\ pc[q] = "fetched" /\ ferr[q] = Nil /\ tokResp.status = 200

\* C25: when the forced refresh after a 401 fails with a RateLimitedError,
\* the operation issues no further resource request and returns a
\* RateLimitedError carrying the same retry-after duration.
C25_RefreshRateLimitIsReturned ==
    \A p \in Callers :
        (/\ pc[p] = "idle"
         /\ result[p] # NoResult
         /\ useRefresh[p]
         /\ ferr[p].kind = "RateLimitedError")
        => /\ result[p].kind = "RateLimitedError"
           /\ result[p].retryAfter = ferr[p].retryAfter

\* GetShipment has returned for the body in respBody.
GetReturned == dpc \in {"get", "both"}

\* C26: GetShipment returns the body itself as the shipment when it decodes
\* with a non-zero id or a non-empty custom id; else details.shipment when
\* present; else the first element of details.shipments; and an error when
\* none of the three gives a record ("empty shipment response" for a body
\* that decodes).
C26_BareThenShipmentThenFirstOfShipments ==
    GetReturned =>
        LET b == respBody
            d == respBody.details
        IN  IF b.kind = "object" /\ (b.rec.id # 0 \/ b.rec.customID # "")
            THEN got = [err |-> Nil, s |-> b.rec]
            ELSE IF b.kind = "object" /\ d.kind = "object" /\ d.hasShipment
            THEN got = [err |-> Nil, s |-> d.shipment]
            ELSE IF b.kind = "object" /\ d.kind = "object" /\ d.shipments # <<>>
            THEN got = [err |-> Nil, s |-> Head(d.shipments)]
            ELSE /\ got.err \notin {Nil, NoResult}
                 /\ (b.kind = "object" /\ d.kind # "string")
                        => got.err = EmptyShipmentError

\* C26 witness: an envelope without an id of its own, without
\* details.shipment and with two records in details.shipments gives the
\* first of them.
C26_Witness ==
    /\ GetReturned
    /\ respBody.rec = Record(0, "")
    /\ ~respBody.details.hasShipment
    /\ respBody.details.shipments = <<Record(9, "D"), Record(10, "E")>>
    /\ got = [err |-> Nil, s |-> Record(9, "D")]

\* C27: for every body of a successful response CreateShipment and
\* GetShipment return the same record, or both fail.
C27_CreateDecodesAsGet ==
    dpc = "both" =>
        \/ got.err = Nil /\ created.err = Nil /\ created.s = got.s
        \/ got.err # Nil /\ created.err # Nil

\* A list operation has returned for the body in lastBody.
ListReturned == lastBody.kind # "none" /\ listOp # ""

\* C28: an enveloped list response whose shipments array is present but
\* empty is not returned as an envelope result: it goes to the bare-array
\* parse, which an envelope does not pass.
C28_EmptyEnvelopeFallsBack ==
    (/\ ListReturned
     /\ lastBody.kind = "envelope"
     /\ lastBody.hasShipments
     /\ lastBody.shipments = <<>>)
    => lerr # Nil

\* C28 as amended: an enveloped list response is returned as an envelope
\* result whenever it carries a shipments array, empty or not; only an
\* envelope without a shipments array goes to the bare-array parse, which
\* it does not pass.
C28_EnvelopeWithArrayIsTaken ==
    (ListReturned /\ lastBody.kind = "envelope") =>
        IF lastBody.hasShipments
        THEN /\ lerr = Nil
             /\ items = lastBody.shipments
             /\ meta = lastBody.pagination
        ELSE lerr # Nil

\* C28 witness: an envelope with an empty shipments array and
\* moreAvailable=true has been returned with its own pagination.
C28_Witness ==
    /\ ListReturned
    /\ lastBody.kind = "envelope"
    /\ lastBody.hasShipments
    /\ lastBody.shipments = <<>>
    /\ lerr = Nil
    /\ items = <<>>
    /\ meta.moreAvailable
    /\ meta.lastObjectKey = "key"

\* buildPath has returned for the inputs in pathIn.
PathBuilt == ppc = "built"

\* The URL made of the base without its trailing slashes, the given
\* segments and the path without its leading slashes.
UrlOf(base, prefix, path) ==
    TrimRightChar(base, "/")
    \o (IF prefix = <<>> THEN <<>> ELSE <<"/">> \o prefix)
    \o <<"/">> \o TrimLeftChar(path, "/")

\* C29: with a token the prefix is "v1"; without a token, on a base URL
\* of the public-API host and with the configured prefix v1, it is
\* "public/v1"; the prefix is appended to the base URL unless the base URL
\* already ends with it.
C29_PrefixByAuthenticationMode ==
    PathBuilt =>
        /\ pathIn.token # <<>> => built.prefix = <<"v", "1">>
        /\ (/\ pathIn.token = <<>>
            /\ Contains(pathIn.base, <<"p", "u", "b", "l", "i", "c", "a", "p", "i", ".">>)
            /\ TrimChar(pathIn.prefix, "/") = <<"v", "1">>)
           => built.prefix = <<"p", "u", "b", "l", "i", "c", "/", "v", "1">>
        /\ built.url = IF HasSuffix(TrimRightChar(pathIn.base, "/"), built.prefix)
                       THEN UrlOf(pathIn.base, <<>>, pathIn.path)
                       ELSE UrlOf(pathIn.base, built.prefix, pathIn.path)

\* C29 witness: without a token, base "publicapi.t/" and prefix "/v1" give
\* "publicapi.t/public/v1/s".
C29_Witness ==
    /\ PathBuilt
    /\ pathIn.token = <<>>
    /\ pathIn.base = <<"p", "u", "b", "l", "i", "c", "a", "p", "i", ".", "t", "/">>
    /\ pathIn.prefix = <<"/", "v", "1">>
    /\ built.prefix = <<"p", "u", "b", "l", "i", "c", "/", "v", "1">>
    /\ built.url = <<"p", "u", "b", "l", "i", "c", "a", "p", "i", ".", "t", "/",
                     "p", "u", "b", "l", "i", "c", "/", "v", "1", "/", "s">>

\* What the page just returned advances the cursor by: its
\* totalRecordsInPage, or its item count when that is not positive.
Advance == IF meta'.totalRecordsInPage > 0
           THEN meta'.totalRecordsInPage ELSE Len(items')

\* C30: each page is requested at the cursor; after a page the loop goes on
\* only when moreAvailable is true, with the cursor moved forward by the
\* page's totalRecordsInPage or, when that is not positive, by its item
\* count; the loop stops when that advance is zero, the cursor staying; at
\* the hundredth page the cursor moves once more and no page is requested at
\* it; and the cursors of the pages requested increase strictly.
C30_CursorAdvancesByPageTotal ==
    [][/\ (spc = "loop" /\ spc' = "page") => pageReqs' = Append(pageReqs, start)
       /\ (spc = "page" /\ lerr' = Nil) =>
              IF spc' = "loop"
              THEN /\ meta'.moreAvailable
                   /\ start' = start + Advance
                   /\ start' > start
              ELSE \/ ~meta'.moreAvailable /\ start' = start
                   \/ Advance = 0 /\ start' = start
                   \/ /\ page + 1 = 100
                      /\ meta'.moreAvailable
                      /\ start' = start + Advance
                      /\ pageReqs' = pageReqs
       /\ \A i \in 1..(Len(pageReqs') - 1) : pageReqs'[i] < pageReqs'[i + 1]]_vars

\* C30 witness: a first page of two records with moreAvailable=true and
\* totalRecordsInPage=-1 has moved the cursor from 0 to 2.
C30_Witness ==
    /\ spc = "loop"
    /\ listOp = "ListShipmentsPage"
    /\ pageReqs = <<0>>
    /\ meta.moreAvailable
    /\ meta.totalRecordsInPage = -1
    /\ Len(items) = 2
    /\ start = 2

\* C31: the load made from a shipment the provider returned, to a list or
\* to a create call, has the status "Unknown"
\* when the shipment's status is absent, does not decode as an object with
\* a code value, or has a code value that is empty or whitespace only, and
\* the trimmed code value otherwise; a load is returned in every case.
C31_StatusUnknownOrTrimmedCode ==
    mpc \in {"back", "mapped"} =>
        IF ~returned.status.present \/ ~returned.status.decodes \/ Blank(returned.status.code)
        THEN back.status = Unknown
        ELSE IsTrimOf(back.status, returned.status.code)

\* C31 witness: a listed shipment whose status code is " Tendered  " has
\* been converted to a load with the status "Tendered".
C31_Witness ==
    /\ mpc = "mapped"
    /\ returned.status = StatusObject(<<" ">> \o Tendered \o <<" ", " ">>)
    /\ back.status = Tendered

\* C32 as stated: the load made from a provider's shipment carries the
\* shipment's services, equipment types and margin figures when the
\* shipment has them, and leaves them absent when it has not.
C32_DisplayFieldsCopied ==
    mpc \in {"back", "mapped"} =>
        /\ back.display.services = returned.services
        /\ back.display.equipment = returned.equipment
        /\ back.display.marginAmount.nil = (returned.margin.nil \/ returned.margin.minPay = 0)
        /\ back.display.marginValue.nil = (returned.margin.nil \/ returned.margin.maxPay = 0)

\* What the code does: the load's display fields are absent whatever the
\* shipment carries.
C32_DisplayFieldsNeverSet ==
    mpc \in {"back", "mapped"} => back.display = ZeroDisplay

\* A shipment with a service, two equipment types and a margin has been
\* converted.
C32_ShipmentWithDisplayData ==
    /\ mpc = "mapped"
    /\ returned.services = <<"Liftgate">>
    /\ returned.equipment = <<"Van", "Reefer">>
    /\ returned.margin = Margin(100, 250)

\* The workers that have sent their result.
SentWorkers ==
    {i \in 1..Len(shipments) :
        worker[i] \in {"sentDetail", "sentSummary", "exitedDetail", "exitedSummary"}}

\* The workers that have returned.
ExitedWorkers ==
    {i \in 1..Len(shipments) : worker[i] \in {"exitedDetail", "exitedSummary"}}

\* The records of the page that need a detail fetch.
NeedDetail == {i \in 1..Len(shipments) : ~hasLane(shipments[i])}

\* C33: the enrichment fan-out completes when every detail fetch returns,
\* for short pages and for a page with more records to enrich than the
\* semaphore holds: a worker's send never finds the results channel full,
\* every result sent is either buffered or collected, the semaphore holds
\* one slot per worker that has not returned, and once the handler starts
\* the fan-out it answers after collecting one result per worker spawned,
\* and every worker has sent its result and freed its slot.
C33_FanOutCompletes ==
    /\ [](\A i \in 1..Len(shipments) :
             worker[i] = "fetching" => Len(results) < resultsCap)
    /\ [](Len(results) + collected = Cardinality(SentWorkers))
    /\ [](sem = Cardinality({i \in 1..Len(shipments) : worker[i] # "none"})
                - Cardinality(ExitedWorkers))
    /\ (hpc = "spawn") ~>
          (/\ hpc = "done"
           /\ collected = pending
           /\ results = <<>>
           /\ ExitedWorkers = NeedDetail
           /\ Cardinality(NeedDetail) = pending
           /\ sem = 0)

\* C33 witness: the page of seven records without a lane has been answered
\* after seven results were collected, and every worker has returned.
C33_Witness ==
    /\ hpc = "done"
    /\ httpStatus = StatusOK
    /\ Len(shipments) = SemCap + 1
    /\ collected = SemCap + 1
    /\ Cardinality(ExitedWorkers) = SemCap + 1
    /\ sem = 0

\* C34 as stated: an operation returns after a bounded number of HTTP
\* requests whatever the provider answers: no call that has sent
\* MaxResReqs resource requests is about to send one more.
C34_RequestsBounded ==
    \A p \in Callers :
        (pc[p] = "fetched" /\ ~useRefresh[p] /\ newRequestProceeds(ferr[p])) =>
            resReqs[p] < MaxResReqs

\* A call whose every resource request was answered 401 has gone through
\* fetchToken again without a token request and is about to repeat the
\* request with the token that was refused.
C34_RetriesWithSameToken ==
    \E p \in Callers :
        /\ pc[p] = "fetched" /\ ~useRefresh[p] /\ ferr[p] = Nil
        /\ resReqs[p] = MaxResReqs
        /\ tokReqs[p] = 0
        /\ bearerRead[p].token = token

\* C35: a stored token that is not empty never becomes empty again, every
\* resource request that newRequest built carries a bearer token that is
\* not empty, and the path of every such request was built with the prefix
\* "v1", whatever base URL and API prefix are configured and whatever
\* another goroutine's fetchToken is doing.
C35_BearerNeverEmpty ==
    /\ [][token # <<>> => token' # <<>>]_vars
    /\ [](\A p \in Callers :
             bearerRead[p].done =>
                 /\ bearerRead[p].token # <<>>
                 /\ bearerRead[p].prefix = <<"v", "1">>)

\* C35 witness: a resource request is in flight with the bearer token "a"
\* while another goroutine's token request is in flight.
C35_Witness ==
    \E p, q \in Callers :
        /\ p # q
        /\ pc[p] = "resource"
        /\ bearerRead[p].done
        /\ bearerRead[p].token = <<"a">>
        /\ bearerRead[p].prefix = <<"v", "1">>
        /\ pc[q] = "oauth"

\* C36: a cooldown that is running and a reusable token never hold
\* together: a step that sets nextOAuthAttempt to another time than the
\* zero time is taken with a token that is empty or has 60 seconds or less
\* left, and a step that stores a token leaves no cooldown behind.
C36_NoCooldownWithReusableToken ==
    /\ [](~(now < nextOAuthAttempt /\ token # <<>> /\ tokenExp - now > 60))
    /\ [][(nextOAuthAttempt' # nextOAuthAttempt /\ nextOAuthAttempt' # 0)
             => ~(token' # <<>> /\ tokenExp' - now' > 60)]_vars
    /\ [][(\E p \in Callers : pc[p] = "oauth" /\ pc'[p] = "fetched" /\ ferr'[p] = Nil)
             => nextOAuthAttempt' = 0]_vars

\* C36 witness: a cooldown is running while the stored token, which has 60
\* seconds or less left, is still held.
C36_Witness ==
    /\ now < nextOAuthAttempt
    /\ token # <<>>
    /\ tokenExp - now <= 60
    /\ tokenExp > now

\* C37: a cooldown does not lock the client out: a fetchToken call made
\* when the time has reached nextOAuthAttempt, with a token that is empty
\* or has 60 seconds or less left, issues a token request, and when that
\* request succeeds the call returns nil with a token stored and the
\* cooldown cleared, so that the next call is not refused.
C37_CooldownElapses ==
    /\ [][\A p \in Callers :
            (/\ FetchTokenActs(p)
             /\ now >= nextOAuthAttempt
             /\ ~(token # <<>> /\ tokenExp - now > 60))
            => /\ pc'[p] = "oauth"
               /\ tokReqs'[p] = tokReqs[p] + 1]_vars
    /\ [][\A p \in Callers :
            (pc[p] = "oauth" /\ pc'[p] = "fetched" /\ ferr'[p] = Nil)
            => /\ token' # <<>>
               /\ nextOAuthAttempt' = 0
               /\ ~(now' < nextOAuthAttempt')]_vars

\* C37 witness: a cooldown that ended at time 30 has elapsed and a call
\* made after it has its token request in flight.
C37_Witness ==
    \E p \in Callers :
        /\ nextOAuthAttempt = 30
        /\ now >= 30
        /\ pc[p] = "oauth"
        /\ tokReqs[p] = 1

\* Caller p's token request has just succeeded.
Acquired(p) == pc[p] = "oauth" /\ pc'[p] = "fetched" /\ ferr'[p] = Nil

\* The stored token is reusable in the next state.
ReusableNext == token' # <<>> /\ tokenExp' - now' > 60

\* C38 as stated: right after a successful acquisition the stored token is
\* reusable, for every positive expires_in.
C38_ReusableForPositiveExpiresIn ==
    [][\A p \in Callers :
          (Acquired(p) /\ (tokResp'.expiresIn.wide \/ tokResp'.expiresIn.val > 0))
          => ReusableNext]_vars

\* What the code does: right after a successful acquisition the stored
\* token is reusable exactly when expires_in is more than 60 and its
\* nanoseconds fit 64 bits, or is absent or not positive (12 hours are
\* stored); and a fetchToken call that finds a reusable token issues no
\* request.
C38_ReusableAboveSixty ==
    /\ [][\A p \in Callers :
            Acquired(p) =>
                (ReusableNext <=>
                    /\ ~tokResp'.expiresIn.wide
                    /\ tokResp'.expiresIn.val > 60 \/ tokResp'.expiresIn.val <= 0)]_vars
    /\ [][\A p \in Callers :
            (FetchTokenActs(p) /\ token # <<>> /\ tokenExp - now > 60)
            => (pc'[p] = "fetched" /\ ferr'[p] = Nil /\ tokReqs'[p] = tokReqs[p])]_vars

\* A token response with expires_in 60 has just been stored, and the token
\* has 60 seconds left.
C38_StoredWithSixtyLeft ==
    \E p \in Callers :
        /\ pc[p] = "fetched"
        /\ ferr[p] = Nil
        /\ tokResp.status = 200
        /\ tokResp.expiresIn = GoInt(60)
        /\ token # <<>>
        /\ tokenExp - now = 60

\* The scan of a lookup stopped at the ceiling of 100 pages while the last
\* page reported more records available.
StoppedAtCeiling ==
    /\ FindReturned
    /\ lerr = Nil
    /\ Len(pageReqs) = maxPages
    /\ meta.moreAvailable

\* C39: a lookup whose scan stopped at the ceiling of 100 pages with more
\* records available reports no truncation: it returns the first record of
\* the scanned pages that has the external id, with a nil error, and
\* otherwise the same not-found error as a complete scan, also when a
\* record beyond the scanned pages has the external id.
C39_CeilingNotReported ==
    StoppedAtCeiling =>
        LET hits == {i \in 1..Len(all) : all[i].customID = wanted}
        IN  IF hits = {}
            THEN found = [err |-> NotFoundError, ok |-> FALSE, s |-> Record(0, "")]
            ELSE /\ found.err = Nil
                 /\ found.ok
                 /\ \E i \in hits : found.s = all[i] /\ \A j \in hits : i <= j

\* C39 witness: the scan stopped after 100 pages of one record, the record
\* with the external id is the provider's 101st, and the lookup returned
\* the not-found error.
C39_Witness ==
    /\ StoppedAtCeiling
    /\ Len(all) = maxPages
    /\ Len(dataset) = maxPages + 1
    /\ dataset[maxPages + 1].customID = wanted
    /\ found.err = NotFoundError

\* The record's lane is missing, or has an empty start and an empty end.
LaneMissing(s) == s.lane.nil \/ (s.lane.start = "" /\ s.lane.end = "")

\* The records of the page whose lane is missing, and those a worker was
\* started for.
MissingLanes == {i \in 1..Len(shipments) : LaneMissing(shipments[i])}
Fetched == {i \in 1..Len(shipments) : worker[i] # "none"}

\* C40: a detail fetch is scheduled for exactly the records whose lane is
\* missing or has both start and end empty: the count of pending records is
\* their number, only they get a worker, each of them has got one when the
\* spawning loop is over, and a record with a lane start or end is never
\* replaced.
C40_FetchesExactlyMissingLanes ==
    /\ pending = Cardinality(MissingLanes)
    /\ Fetched \subseteq MissingLanes
    /\ (hpc \in {"collect", "respond"} \/ (hpc = "done" /\ httpStatus = StatusOK))
          => Fetched = MissingLanes
    /\ \A i \in 1..Len(shipments) :
          ~LaneMissing(shipments[i]) => enriched[i] = shipments[i]

\* C40 witness: of a page of three records, one without a lane, one with an
\* empty lane and one with a lane start, the first two were fetched and
\* replaced and the third was not.
C40_Witness ==
    /\ hpc = "done"
    /\ Len(shipments) = 3
    /\ shipments[1].lane = NilLane
    /\ shipments[2].lane = Lane("", "")
    /\ shipments[3].lane = Lane("Chicago, IL", "")
    /\ pending = 2
    /\ Fetched = {1, 2}
    /\ enriched[1].detail /\ enriched[2].detail
    /\ enriched[3] = shipments[3]

====
